---- MODULE Spec2Model ----
(***************************************************************************)
(* Assignment pipeline of the team-building role assigner:                 *)
(*   - AssignmentQueue      (src/src/lib/services/AssignmentQueue.ts)      *)
(*   - AssignmentProcessor  (src/src/lib/services/AssignmentProcessor.ts)  *)
(*   - Assigner             (src/src/lib/services/SystemInitializer.ts)    *)
(* Each component has its own specification over the shared variables; a   *)
(* specification leaves the variables of the other components untouched.   *)
(***************************************************************************)
EXTENDS Naturals, Integers, Sequences, FiniteSets, TLC

(***************************************************************************)
(* Bounds of the model.                                                    *)
(***************************************************************************)
NumTeams == 4
MaxAdds == 4
FailDepth == 1
MaxAddsWide == 6
NumTeamsRetry == 3
MaxAddsRetry == 4
MaxTeamSize == 3
MaxRoleCount == 3
NumTeamsProc == 2
NumWriters == 3
MaxParsedRows == 2
MaxBatchTeams == 3
MaxConcurrency == 2
MaxMembers == 2
NumTeamsPipeline == 1
MaxCheckedSize == 2
NumTeamsLoad == 4
MaxAddsFair == 4
MaxAddsAdmin == 4
MaxStatEntries == 2
ScoreResolution == 2

(***************************************************************************)
(* Program constants.                                                      *)
(***************************************************************************)
MAX_CONCURRENT == 3
MAX_RETRIES == 3
STUCK_THRESHOLD == 300000
SCORER_MAX_RETRIES == 3
JUSTIFIER_MAX_RETRIES == 3

Teams == 1..NumTeams

VARIABLES
  processingPool,   \* AssignmentQueue.processingPool : Set<string>
  waitingQueue,     \* AssignmentQueue.waitingQueue : QueueItem[]
  totalProcessed,   \* AssignmentQueue.stats.totalProcessed
  totalFailed,      \* AssignmentQueue.stats.totalFailed
  inFlight,         \* bag of queue items whose triggerAutoAssignment promise has not settled
  retryTimers,      \* bag of queue items held by a pending setTimeout of retryTeam
  added,            \* number of QueueItem objects created so far
  teamsSeen,        \* team ids 1..teamsSeen have been passed to addTeam
  lastOp            \* history: the handler that ran last

queueVars == <<processingPool, waitingQueue, totalProcessed, totalFailed,
               inFlight, retryTimers, added, teamsSeen, lastOp>>

VARIABLES
  asgInput,         \* the arguments of a call of the Assigner: team, roles and
                    \* scoreMatrix of assignRoles, the TeamAssignment of
                    \* getAssignmentStats
  asgResult         \* its return value, or NoResult before the call

asgVars == <<asgInput, asgResult>>

VARIABLES
  pipeline          \* per team: its assignment session and its processTeamAssignment run

procVars == <<pipeline>>

VARIABLES
  sessionAge,       \* per team: Date.now() - created_at of its session row, in ms (0: no row)
  health            \* history: what the last health-check operation did

healthVars == <<sessionAge, health>>

VARIABLES
  sessionRows,      \* ids of the assignment_sessions rows of one team
  writers           \* per caller of createAssignmentSession(teamId): position and result

sessVars == <<sessionRows, writers>>

VARIABLES
  scorer            \* one call of Scorer.generateScoreMatrix(team, roles, key)

scorerVars == <<scorer>>

\* Scorer.generateScoreMatricesBatch / JustifierRunner.generateJustificationsBatch
VARIABLES
  batch            \* one call of a batch method: arguments, position, allResults
batchVars == <<batch>>

\* JustifierService.generateJustifications
VARIABLES
  justifier,       \* one call: the team, the parsed response, the result
  teamAssignment,  \* a TeamAssignment value and the operation that returned it
  runner           \* one call of JustifierRunner.generateJustificationsWithRetry
justVars == <<justifier, teamAssignment, runner>>

vars == <<queueVars, asgVars, procVars, healthVars, sessVars, scorerVars, batchVars, justVars>>

(***************************************************************************)
(* Bags of queue items: two QueueItem objects may carry the same fields.   *)
(***************************************************************************)
EmptyItems == << >>
ItemsIn(b) == DOMAIN b
CountOf(b, x) == IF x \in DOMAIN b THEN b[x] ELSE 0
PutItem(b, x) == [y \in DOMAIN b \cup {x} |-> CountOf(b, y) + (IF y = x THEN 1 ELSE 0)]
TakeItem(b, x) == [y \in {z \in DOMAIN b : z # x \/ b[z] > 1} |->
                     b[y] - (IF y = x THEN 1 ELSE 0)]
RECURSIVE SumCounts(_, _)
SumCounts(b, S) == IF S = {} THEN 0
                   ELSE LET x == CHOOSE y \in S : TRUE
                        IN b[x] + SumCounts(b, S \ {x})
NumItems(b) == SumCounts(b, DOMAIN b)

(***************************************************************************)
(* AssignmentQueue.  The handlers run to completion on the event loop; the *)
(* operators below transform a record q of the queue's fields so that a    *)
(* handler's nested calls compose into one action.                         *)
(* A queue item carries, besides teamId and retryCount, the history field  *)
(* runs: the number of times startProcessing was called with it.           *)
(***************************************************************************)
QueueItem(teamId) == [teamId |-> teamId, retryCount |-> 0, runs |-> 0]

QueueState ==
  [pool |-> processingPool, waiting |-> waitingQueue,
   totalProcessed |-> totalProcessed, totalFailed |-> totalFailed,
   inFlight |-> inFlight, timers |-> retryTimers]

WaitingTeams(waiting) == {waiting[i].teamId : i \in 1..Len(waiting)}

\* addTeam, lines 59 and 64: the team is already processing or already queued
AlreadyAdmitted_WaitingOnly(q, teamId) == teamId \in WaitingTeams(q.waiting)
AlreadyAdmitted(q, teamId) ==
  \/ teamId \in q.pool
  \/ teamId \in WaitingTeams(q.waiting)

\* lines 77 and 185: a processing slot is free
SlotFree_OffByOne(q) == Cardinality(q.pool) <= MAX_CONCURRENT
SlotFree(q) == Cardinality(q.pool) < MAX_CONCURRENT

\* line 140: the failed item may be retried
RetryAllowed_OffByOne(item) == item.retryCount <= MAX_RETRIES
RetryAllowed(item) == item.retryCount < MAX_RETRIES

\* startProcessing: pool.add(teamId), then triggerAutoAssignment(teamId) is in flight
startProcessing(q, item) ==
  [q EXCEPT !.pool = @ \cup {item.teamId},
            !.inFlight = PutItem(@, [item EXCEPT !.runs = @ + 1])]

\* processNext: start the head of the waiting list when a slot is free
processNext_Idle(q) == q
processNext(q) ==
  IF ~SlotFree(q) \/ Len(q.waiting) = 0
  THEN q
  ELSE startProcessing([q EXCEPT !.waiting = Tail(@)], Head(q.waiting))

\* retryTeam: retryCount++ and a timer that will re-insert the item
retryTeam(q, item) ==
  [q EXCEPT !.timers = PutItem(@, [item EXCEPT !.retryCount = @ + 1])]

\* the setTimeout callback of retryTeam: unshift, then processNext
retryTimerFired_Append(q, item) ==
  processNext([q EXCEPT !.timers = TakeItem(@, item),
                        !.waiting = Append(@, item)])
retryTimerFired(q, item) ==
  processNext([q EXCEPT !.timers = TakeItem(@, item),
                        !.waiting = <<item>> \o @])

\* onProcessingComplete(teamId, success, originalQueueItem)
onProcessingComplete(q, item, success) ==
  LET q1 == [q EXCEPT !.pool = @ \ {item.teamId}]
      q2 == IF success
            THEN [q1 EXCEPT !.totalProcessed = @ + 1]
            ELSE IF RetryAllowed(item)
                 THEN retryTeam(q1, item)
                 ELSE [q1 EXCEPT !.totalFailed = @ + 1]
  IN processNext(q2)

\* addTeam(teamId)
addTeam(q, teamId) ==
  IF AlreadyAdmitted(q, teamId)
  THEN q
  ELSE IF SlotFree(q)
       THEN startProcessing(q, QueueItem(teamId))
       ELSE [q EXCEPT !.waiting = Append(@, QueueItem(teamId))]

\* forceRetryTeam, lines 257-260: findIndex and splice(queueIndex, 1)
spliceTeam(waiting, teamId) ==
  IF teamId \notin WaitingTeams(waiting)
  THEN waiting
  ELSE LET queueIndex == CHOOSE i \in 1..Len(waiting) :
                           /\ waiting[i].teamId = teamId
                           /\ \A j \in 1..(i - 1) : waiting[j].teamId # teamId
       IN SubSeq(waiting, 1, queueIndex - 1)
            \o SubSeq(waiting, queueIndex + 1, Len(waiting))

\* forceRetryTeam(teamId): the runs in flight and the pending retry timers
\* are not touched
forceRetryTeam(q, teamId) ==
  addTeam([q EXCEPT !.pool = @ \ {teamId},
                    !.waiting = spliceTeam(@, teamId)], teamId)

\* clearQueue(): stats.processing and stats.waiting are the sizes of the
\* pool and of the waiting list
clearQueue(q) ==
  [q EXCEPT !.pool = {}, !.waiting = <<>>,
            !.totalProcessed = 0, !.totalFailed = 0]

SetQueue(q) ==
  /\ processingPool' = q.pool
  /\ waitingQueue' = q.waiting
  /\ totalProcessed' = q.totalProcessed
  /\ totalFailed' = q.totalFailed
  /\ inFlight' = q.inFlight
  /\ retryTimers' = q.timers

QueueInit ==
  /\ processingPool = {}
  /\ waitingQueue = <<>>
  /\ totalProcessed = 0
  /\ totalFailed = 0
  /\ inFlight = EmptyItems
  /\ retryTimers = EmptyItems
  /\ added = 0
  /\ teamsSeen = 0
  /\ lastOp = "init"

\* A caller invokes addTeam(teamId).  Team ids are opaque strings: the first
\* call for a team not seen before takes the next unused id.
CanAdd(teamId, maxAdds) == added < maxAdds \/ AlreadyAdmitted(QueueState, teamId)

AddTeam(teamId) ==
  /\ teamId <= teamsSeen + 1
  /\ SetQueue(addTeam(QueueState, teamId))
  /\ added' = IF AlreadyAdmitted(QueueState, teamId) THEN added ELSE added + 1
  /\ teamsSeen' = IF teamId > teamsSeen THEN teamId ELSE teamsSeen
  /\ lastOp' = IF AlreadyAdmitted(QueueState, teamId) THEN "addTeamNoop" ELSE "addTeam"

\* the promise of triggerAutoAssignment resolves: .then -> onProcessingComplete(teamId, true)
RunSucceeds(item) ==
  /\ item \in ItemsIn(inFlight)
  /\ SetQueue(onProcessingComplete(
                [QueueState EXCEPT !.inFlight = TakeItem(@, item)], item, TRUE))
  /\ lastOp' = "runSucceeded"
  /\ UNCHANGED <<added, teamsSeen>>

\* the promise rejects: .catch -> onProcessingComplete(teamId, false, queueItem)
RunFails(item) ==
  /\ item \in ItemsIn(inFlight)
  /\ SetQueue(onProcessingComplete(
                [QueueState EXCEPT !.inFlight = TakeItem(@, item)], item, FALSE))
  /\ lastOp' = "runFailed"
  /\ UNCHANGED <<added, teamsSeen>>

\* a retry timer fires
RetryTimerFires(item) ==
  /\ item \in ItemsIn(retryTimers)
  /\ SetQueue(retryTimerFired(QueueState, item))
  /\ lastOp' = "retryTimer"
  /\ UNCHANGED <<added, teamsSeen>>

\* The queue in an environment where only the runs of items with
\* retryCount < FailDepth fail.
QueueNext ==
  \/ \E t \in Teams : CanAdd(t, MaxAdds) /\ AddTeam(t)
  \/ \E item \in ItemsIn(inFlight) : RunSucceeds(item)
  \/ \E item \in ItemsIn(inFlight) : item.retryCount < FailDepth /\ RunFails(item)
  \/ \E item \in ItemsIn(retryTimers) : RetryTimerFires(item)

\* The same with one more admission.
QueueWideNext ==
  \/ \E t \in Teams : CanAdd(t, MaxAddsWide) /\ AddTeam(t)
  \/ \E item \in ItemsIn(inFlight) : RunSucceeds(item)
  \/ \E item \in ItemsIn(inFlight) : item.retryCount < FailDepth /\ RunFails(item)
  \/ \E item \in ItemsIn(retryTimers) : RetryTimerFires(item)

\* The queue in an environment where every run fails, whatever its retryCount.
QueueRetryNext ==
  \/ \E t \in 1..NumTeamsRetry : CanAdd(t, MaxAddsRetry) /\ AddTeam(t)
  \/ \E item \in ItemsIn(inFlight) : RunFails(item)
  \/ \E item \in ItemsIn(retryTimers) : RetryTimerFires(item)

\* an administrator calls forceRetryTeam(teamId) for a team enqueued before
ForceRetryTeam(teamId) ==
  /\ teamId <= teamsSeen
  /\ added < MaxAddsAdmin
  /\ SetQueue(forceRetryTeam(QueueState, teamId))
  /\ added' = added + 1
  /\ lastOp' = "forceRetryTeam"
  /\ UNCHANGED teamsSeen

\* an administrator calls clearQueue()
ClearQueue ==
  /\ lastOp # "clearQueue"
  /\ SetQueue(clearQueue(QueueState))
  /\ lastOp' = "clearQueue"
  /\ UNCHANGED <<added, teamsSeen>>

\* The queue with its admin functions: every team is enqueued once by
\* addTeam, and only the runs of items with retryCount < FailDepth fail.
QueueAdminNext ==
  \/ \E t \in Teams : added < MaxAddsAdmin /\ t = teamsSeen + 1 /\ AddTeam(t)
  \/ \E item \in ItemsIn(inFlight) : RunSucceeds(item)
  \/ \E item \in ItemsIn(inFlight) : item.retryCount < FailDepth /\ RunFails(item)
  \/ \E item \in ItemsIn(retryTimers) : RetryTimerFires(item)
  \/ \E t \in Teams : ForceRetryTeam(t)
  \/ ClearQueue

\* The queue with neither forceRetryTeam nor clearQueue: every team is
\* enqueued once, and only the first run of an item may fail.
QueueFairNext ==
  \/ \E t \in Teams : added < MaxAddsFair /\ t = teamsSeen + 1 /\ AddTeam(t)
  \/ \E item \in ItemsIn(inFlight) : RunSucceeds(item)
  \/ \E item \in ItemsIn(inFlight) : item.retryCount = 0 /\ RunFails(item)
  \/ \E item \in ItemsIn(retryTimers) : RetryTimerFires(item)

(***************************************************************************)
(* Assigner.assignRoles.  Applicants and roles are identified by their     *)
(* 1-based index in team.applicants and in roles (their ids are distinct   *)
(* uuids).                                                                 *)
(***************************************************************************)
Scores == {10, 90}
CheckedScore == 10
NoResult == [called |-> FALSE]
NoInput == [isComplete |-> FALSE, teamSize |-> 0, rolesCount |-> 0, scores |-> <<>>]

RECURSIVE SumSeq(_)
SumSeq(seq) == IF seq = <<>> THEN 0 ELSE Head(seq) + SumSeq(Tail(seq))

\* lines 94-96: costMatrix = scores.map(row => row.map(score => 100 - score))
CostMatrix_NoFlip(scores) == scores
CostMatrix(scores) ==
  [i \in DOMAIN scores |-> [j \in DOMAIN scores[i] |-> 100 - scores[i][j]]]

\* munkres-js (declared in src/unnamed/part_018): the possible return values of
\* munkres(costMatrix) for a matrix with at least as many columns as rows, a
\* list of [row, column] pairs, one per row in row order, the columns distinct
\* and the total cost minimal.
Injections(n, m) ==
  {f \in [1..n -> 1..m] : \A i, k \in 1..n : i # k => f[i] # f[k]}
CostOf(cost, f) == SumSeq([i \in DOMAIN f |-> cost[i][f[i]]])
munkres(cost) ==
  LET n == Len(cost)
      m == IF n = 0 THEN 0 ELSE Len(cost[1])
      all == Injections(n, m)
      costs == {CostOf(cost, f) : f \in all}
      least == CHOOSE c \in costs : \A d \in costs : c <= d
      best == {f \in all : CostOf(cost, f) = least}
  IN {[i \in 1..n |-> <<i, f[i]>>] : f \in best}

\* line 101: !hungarianResult || hungarianResult.length !== teamSize
ResultLengthOk_RolesCount(hungarianResult, teamSize, rolesCount) ==
  Len(hungarianResult) = rolesCount
ResultLengthOk(hungarianResult, teamSize, rolesCount) ==
  Len(hungarianResult) = teamSize

\* line 116: score = scoreMatrix.scores[applicantIndex][roleIndex]
pairScore_Cost(scores, pair) == 100 - scores[pair[1]][pair[2]]
pairScore(scores, pair) == scores[pair[1]][pair[2]]

\* lines 76-90: the team is complete, there are at least as many roles as
\* members and the score matrix is teamSize x rolesCount
inputsAccepted(in) ==
  /\ in.isComplete
  /\ ~(in.rolesCount < in.teamSize)
  /\ Len(in.scores) = in.teamSize
  /\ \A i \in 1..Len(in.scores) : Len(in.scores[i]) = in.rolesCount

\* lines 139 and 143: assignedApplicants.size !== teamSize, assignedRoles.size !== teamSize
allUnique_Unchecked(ids, teamSize) == TRUE
allUnique(ids, teamSize) == Cardinality(ids) = teamSize

Failure == [called |-> TRUE, success |-> FALSE, assignments |-> <<>>, totalScore |-> 0]

\* assignRoles(team, roles, scoreMatrix), with hungarianResult the value
\* munkres returned for the cost matrix
assignRoles(in, hungarianResult) ==
  LET teamSize == in.teamSize
      rolesCount == in.rolesCount
      scores == in.scores
      assignments ==
        [k \in 1..Len(hungarianResult) |->
           [applicantId |-> hungarianResult[k][1],
            roleId |-> hungarianResult[k][2],
            score |-> pairScore(scores, hungarianResult[k])]]
      totalScore == SumSeq([k \in 1..Len(assignments) |-> assignments[k].score])
      assignedApplicants == {assignments[k].applicantId : k \in 1..Len(assignments)}
      assignedRoles == {assignments[k].roleId : k \in 1..Len(assignments)}
  IN IF ~inputsAccepted(in) THEN Failure
     ELSE IF ~ResultLengthOk(hungarianResult, teamSize, rolesCount) THEN Failure
     ELSE IF \E k \in 1..Len(hungarianResult) :
                \/ hungarianResult[k][1] < 1 \/ hungarianResult[k][1] > teamSize
                \/ hungarianResult[k][2] < 1 \/ hungarianResult[k][2] > rolesCount
          THEN Failure
     ELSE IF ~allUnique(assignedApplicants, teamSize) THEN Failure
     ELSE IF ~allUnique(assignedRoles, teamSize) THEN Failure
     ELSE [called |-> TRUE, success |-> TRUE, assignments |-> assignments,
           totalScore |-> totalScore]

AsgIdle == asgInput = NoInput /\ asgResult = NoResult

\* the valid inputs: a complete team, at least as many roles as members and a
\* teamSize x rolesCount matrix of scores
AsgInit ==
  /\ \E n \in 1..MaxTeamSize : \E m \in n..MaxRoleCount :
       \E sc \in [1..n -> [1..m -> Scores]] :
         asgInput = [isComplete |-> TRUE, teamSize |-> n, rolesCount |-> m,
                     scores |-> sc]
  /\ asgResult = NoResult

\* a caller invokes Assigner.assignRoles(team, roles, scoreMatrix)
AssignRoles ==
  /\ ~asgResult.called
  /\ \E hungarianResult \in munkres(CostMatrix(asgInput.scores)) :
       asgResult' = assignRoles(asgInput, hungarianResult)
  /\ UNCHANGED asgInput

\* Any team, role list and score matrix: a team that may be incomplete, more
\* members than roles, a matrix of any shape (rows of different lengths
\* included).
Shapes(k) == UNION {[1..r -> 0..k] : r \in 0..k}
AnyMatrix(shape) == [i \in DOMAIN shape |-> [j \in 1..shape[i] |-> CheckedScore]]
AsgAnyInit ==
  /\ \E complete \in BOOLEAN : \E n \in 1..MaxCheckedSize : \E m \in 0..MaxCheckedSize :
       \E shape \in Shapes(MaxCheckedSize) :
         asgInput = [isComplete |-> complete, teamSize |-> n, rolesCount |-> m,
                     scores |-> AnyMatrix(shape)]
  /\ asgResult = NoResult

\* What a matching routine that does not keep munkres' contract may return
\* for teamSize rows and rolesCount columns: up to teamSize + 1 pairs, the
\* indices from one below to one above the valid range, repeated or not.
AnyPairs(n, m) == (0..n + 1) \X (0..m + 1)
AnyMatching(n, m) == UNION {[1..len -> AnyPairs(n, m)] : len \in 0..n + 1}

\* assignRoles called with any input; line 99 is reached, and munkres called,
\* only when the input checks passed.  The value munkres returned is kept
\* with the result.
AssignRolesChecked ==
  /\ ~asgResult.called
  /\ IF inputsAccepted(asgInput)
     THEN \E h \in AnyMatching(asgInput.teamSize, asgInput.rolesCount) :
            asgResult' = assignRoles(asgInput, h)
                           @@ [munkresCalled |-> TRUE, hungarianResult |-> h]
     ELSE asgResult' = assignRoles(asgInput, <<>>)
                         @@ [munkresCalled |-> FALSE, hungarianResult |-> <<>>]
  /\ UNCHANGED asgInput

AsgCheckedNext == AssignRolesChecked /\ UNCHANGED <<queueVars, procVars, healthVars, sessVars, scorerVars, batchVars, justVars>>
AsgNext == AssignRoles /\ UNCHANGED <<queueVars, procVars, healthVars, sessVars, scorerVars, batchVars, justVars>>

(***************************************************************************)
(* AssignmentProcessor.  pipeline[t] describes team t's assignment session *)
(* and the run of processTeamAssignment(t) the queue started:              *)
(*   status  the persisted assignment_sessions.status ("none": no session) *)
(*   pc      the await the run is suspended at ("idle": no run)            *)
(*   writes  history: the status values written by the latest run and by   *)
(*           the background task it spawned, in order                      *)
(*   fault   history: why the latest run returned a failure                *)
(*   result  the success field of the value the latest run returned        *)
(*   bg      the position of generateJustificationsBackground              *)
(*   assignment  the persisted assignment_sessions.assignment ("none":     *)
(*           nothing saved)                                                *)
(* A run is suspended at each awaited call that leaves the process (the    *)
(* model provider, the store); what follows the last await of a run, the   *)
(* return, the settling of triggerAutoAssignment's promise and the queue's *)
(* then/catch callback, is one step.  The store applies every status       *)
(* update it is sent.                                                      *)
(***************************************************************************)
ProcTeams == 1..NumTeamsProc
StageFaults == {"scoringFailed", "scoringThrew", "matchingFailed", "saveFailed"}

NoPipeline ==
  [status |-> "none", pc |-> "idle", writes |-> <<>>, fault |-> "none",
   result |-> "none", bg |-> "none", assignment |-> "none", scored |-> "none",
   scoreMatrix |-> "none"]

\* AssignmentSessionManager.updateSessionStatus(session.id, status)
updateSessionStatus(s, status) ==
  [s EXCEPT !.status = status, !.writes = Append(@, status)]

\* lines 33-75: the checks before the inner try fail (no API key, team missing
\* or incomplete, session not created, a throw caught at line 145): the run
\* returns { success: false } without a status write
precheckFailed(s) ==
  [s EXCEPT !.pc = "idle", !.writes = <<>>, !.fault = "precheck",
            !.result = "failure", !.scored = "none"]

\* lines 41-55: getTeam returned null ("missing") or a team whose isComplete
\* is false ("incomplete"): the run returns { success: false } before the
\* session is looked up or created
teamCheckFailed_CreatesSession(s, team) ==
  [s EXCEPT !.pc = "idle", !.writes = <<>>, !.result = "failure",
            !.scored = "none",
            !.status = IF @ = "none" THEN "pending" ELSE @,
            !.fault = IF team = "missing" THEN "teamMissing" ELSE "teamIncomplete"]
teamCheckFailed(s, team) ==
  [s EXCEPT !.pc = "idle", !.writes = <<>>, !.result = "failure",
            !.scored = "none",
            !.fault = IF team = "missing" THEN "teamMissing" ELSE "teamIncomplete"]

\* lines 58-79: get or create the session, then status := scoring
runStarted(s) ==
  LET s1 == [s EXCEPT !.status = IF @ = "none" THEN "pending" ELSE @,
                      !.writes = <<>>, !.fault = "none", !.result = "none",
                      !.scored = "none"]
  IN [updateSessionStatus(s1, "scoring") EXCEPT !.pc = "scoring"]

\* lines 84-90, 99-105, 117-123 and 139-150: a stage failed or threw; the
\* session is rolled back and the run returns { success: false }
stageFailed_NoRollback(s, fault) ==
  [s EXCEPT !.pc = "idle", !.fault = fault, !.result = "failure"]
stageFailed(s, fault) ==
  [updateSessionStatus(s, "pending") EXCEPT
     !.pc = "idle", !.fault = fault, !.result = "failure"]

\* line 82: scoringResult = await Scorer.generateScoreMatrix(...), a success
\* result ("ok"), a failure result ("failed") or a throw ("threw")
scoringReturned(s, outcome) == [s EXCEPT !.scored = outcome]

\* line 84: if (!scoringResult.success) return the failure
scoringResultOk_Unchecked(outcome) == TRUE
scoringResultOk(outcome) == outcome = "ok"

\* lines 92-94: the score matrix is there, status := assigning
scoringSucceeded_SkipAssigning(s) == [s EXCEPT !.pc = "assigning"]
scoringSucceeded(s) ==
  [updateSessionStatus(s, "assigning") EXCEPT !.pc = "assigning"]

\* lines 97-115: assignRoles succeeded, saveAssignmentData is awaited
matchingSucceeded(s) == [s EXCEPT !.pc = "saving"]

\* lines 125-137: status := justifying, the background task is started and
\* not awaited, the run returns { success: true }
saveSucceeded_StatusOnly(s) ==
  [updateSessionStatus(s, "justifying") EXCEPT
     !.pc = "idle", !.result = "success", !.bg = "generating"]
saveSucceeded(s) ==
  [updateSessionStatus(s, "justifying") EXCEPT
     !.pc = "idle", !.result = "success", !.bg = "generating",
     !.assignment = "saved", !.scoreMatrix = "saved"]

\* lines 207-213 (failure result) and 214-225 (thrown error, timeout):
\* status := complete
justificationFailed_DropsAssignment(s) ==
  [updateSessionStatus(s, "complete") EXCEPT !.bg = "done", !.assignment = "none"]
justificationFailed(s) ==
  [updateSessionStatus(s, "complete") EXCEPT !.bg = "done"]

\* lines 186-188: the result is a success, getAssignmentSession is awaited
justificationSucceeded(s) == [s EXCEPT !.bg = "refetching"]

\* lines 189-206: if (session) { save; status := complete }, with no else
\* (saved: saveAssignmentData stored the justified assignment, line 193)
sessionRefetched(s, found, saved) ==
  IF found
  THEN [updateSessionStatus(s, "complete") EXCEPT
          !.bg = "done",
          !.assignment = IF saved THEN "justified" ELSE @]
  ELSE [s EXCEPT !.bg = "done"]

\* triggerAutoAssignment, lines 13-25: resolves when result.success, throws
\* otherwise
triggerAutoAssignment_Swallow(result) == "resolved"
triggerAutoAssignment(result) ==
  IF result = "success" THEN "resolved" ELSE "rejected"

ProcIdle == pipeline = [t \in ProcTeams |-> NoPipeline]

RunningItems(t) == {item \in ItemsIn(inFlight) : item.teamId = t}

\* startProcessing, lines 108-117: the promise of triggerAutoAssignment
\* settles and the then or the catch callback runs
Settle(item, result) ==
  IF triggerAutoAssignment(result) = "resolved"
  THEN RunSucceeds(item)
  ELSE RunFails(item)

\* the run of team t returns with its pipeline record s
Returns(t, s) ==
  /\ pipeline' = [pipeline EXCEPT ![t] = s]
  /\ \E item \in RunningItems(t) : Settle(item, s.result)

\* the run of team t goes on to its next await
Continues(t, s) ==
  /\ pipeline' = [pipeline EXCEPT ![t] = s]
  /\ UNCHANGED queueVars

\* a team becomes complete and TeamManager.updateTeamStats enqueues it
TeamCompletes(t) ==
  /\ t = teamsSeen + 1
  /\ AddTeam(t)
  /\ UNCHANGED pipeline

\* the run the queue started reaches its first status write, or fails before
BeginRun(t, ok) ==
  /\ RunningItems(t) # {}
  /\ pipeline[t].pc = "idle"
  /\ IF ok THEN Continues(t, runStarted(pipeline[t]))
           ELSE Returns(t, precheckFailed(pipeline[t]))

\* TeamManager.getTeam finds no team, or a team that is not complete (a member
\* left after the team was enqueued)
TeamCheckFails(t, team) ==
  /\ RunningItems(t) # {}
  /\ pipeline[t].pc = "idle"
  /\ Returns(t, teamCheckFailed(pipeline[t], team))

\* Scorer.generateScoreMatrix settles
ScoringSettles(t, outcome) ==
  /\ pipeline[t].pc = "scoring"
  /\ LET s == scoringReturned(pipeline[t], outcome)
     IN CASE outcome = "threw" -> Returns(t, stageFailed(s, "scoringThrew"))
          [] outcome # "threw" /\ scoringResultOk(outcome) ->
               Continues(t, scoringSucceeded(s))
          [] OTHER -> Returns(t, stageFailed(s, "scoringFailed"))

\* Assigner.assignRoles returns
MatchingSettles(t, ok) ==
  /\ pipeline[t].pc = "assigning"
  /\ IF ok THEN Continues(t, matchingSucceeded(pipeline[t]))
           ELSE Returns(t, stageFailed(pipeline[t], "matchingFailed"))

\* saveAssignmentData settles
SaveSettles(t, ok) ==
  /\ pipeline[t].pc = "saving"
  /\ IF ok THEN Returns(t, saveSucceeded(pipeline[t]))
           ELSE Returns(t, stageFailed(pipeline[t], "saveFailed"))

\* Promise.race of generateJustificationsWithRetry and the 2-minute timeout
JustificationOutcomes == {"success", "failure", "threw", "timeout"}
JustificationSettles(t, outcome) ==
  /\ pipeline[t].bg = "generating"
  /\ IF outcome = "success"
     THEN Continues(t, justificationSucceeded(pipeline[t]))
     ELSE Continues(t, justificationFailed(pipeline[t]))

\* getAssignmentSession settles (null on a store error or a missing row); the
\* save of the justified assignment does not decide the status write
RefetchSettles(t, found, saved) ==
  /\ pipeline[t].bg = "refetching"
  /\ Continues(t, sessionRefetched(pipeline[t], found, saved))

ProcNext ==
  \/ \E t \in ProcTeams : TeamCompletes(t)
  \/ \E t \in ProcTeams : \E ok \in BOOLEAN : BeginRun(t, ok)
  \/ \E t \in ProcTeams : \E team \in {"missing", "incomplete"} :
       TeamCheckFails(t, team)
  \/ \E t \in ProcTeams : \E outcome \in {"ok", "failed", "threw"} :
       ScoringSettles(t, outcome)
  \/ \E t \in ProcTeams : \E ok \in BOOLEAN : MatchingSettles(t, ok)
  \/ \E t \in ProcTeams : \E ok \in BOOLEAN : SaveSettles(t, ok)
  \/ \E t \in ProcTeams : \E outcome \in JustificationOutcomes :
       JustificationSettles(t, outcome)
  \/ \E t \in ProcTeams : \E found, saved \in BOOLEAN : RefetchSettles(t, found, saved)
  \/ \E item \in ItemsIn(retryTimers) : RetryTimerFires(item) /\ UNCHANGED pipeline


(***************************************************************************)
(* AssignmentHealthChecker (src/unnamed/part_007).  A session row is the   *)
(* pipeline record of its team; the checker reads status, assignment and   *)
(* created_at.  An assignment column is "none" (null), "empty" ({}) or     *)
(* "saved".  health records, for the last checkStuckTeams or               *)
(* manualRecovery call, the action reported per team ("" for a team it did *)
(* not touch) and the number of addTeam calls made per team.               *)
(***************************************************************************)
ProcessingStatuses == {"scoring", "assigning", "justifying"}

\* lines 62-69: .in('status', [...]).lt('created_at', now - STUCK_THRESHOLD)
IsStuck_Inclusive(row, age) ==
  row.status \in ProcessingStatuses /\ age >= STUCK_THRESHOLD
IsStuck(row, age) ==
  row.status \in ProcessingStatuses /\ age > STUCK_THRESHOLD

\* line 142: assignment && Object.keys(assignment).length > 0
HasAssignment_NonNull(assignment) == assignment # "none"
HasAssignment(assignment) == assignment \notin {"none", "empty"}

\* recoverStuckTeam(session): the status it leaves, whether it calls addTeam
\* and the result it returns
recoverStuckTeam_Noop(row) ==
  [status |-> row.status, enqueue |-> FALSE, success |-> FALSE,
   action |-> "unknown_status"]
recoverStuckTeam(row) ==
  CASE row.status = "justifying" /\ HasAssignment(row.assignment) ->
         [status |-> "complete", enqueue |-> FALSE, success |-> TRUE,
          action |-> "completed_without_justifications"]
    [] row.status = "justifying" /\ ~HasAssignment(row.assignment) ->
         [status |-> "pending", enqueue |-> TRUE, success |-> TRUE,
          action |-> "reset_and_requeued"]
    [] row.status \in {"scoring", "assigning"} ->
         [status |-> "pending", enqueue |-> TRUE, success |-> TRUE,
          action |-> "reset_and_requeued"]
    [] OTHER ->
         [status |-> row.status, enqueue |-> FALSE, success |-> FALSE,
          action |-> "unknown_status"]

\* the addTeam calls of one sweep, in the order of the query result (by team id)
RECURSIVE EnqueueAll(_, _)
EnqueueAll(q, S) ==
  IF S = {} THEN q
  ELSE LET t == CHOOSE x \in S : \A y \in S : x <= y
       IN EnqueueAll(addTeam(q, t), S \ {t})

NoHealth ==
  [op |-> "none", action |-> [t \in ProcTeams |-> ""],
   addCalls |-> [t \in ProcTeams |-> 0]]

HealthIdle == sessionAge = [t \in ProcTeams |-> 0] /\ health = NoHealth

\* the rows a restarted process can find: no row, or a row in any status, with
\* an assignment column that is null, {} or a saved assignment
SessionRows ==
  {NoPipeline}
    \cup {[NoPipeline EXCEPT !.status = st, !.assignment = "none"] :
            st \in {"pending", "scoring", "assigning", "justifying"}}
    \cup {[NoPipeline EXCEPT !.status = st, !.assignment = a] :
            st \in {"justifying", "complete"}, a \in {"empty", "saved"}}

RowAges == {STUCK_THRESHOLD - 1, STUCK_THRESHOLD, STUCK_THRESHOLD + 1}

HealthStoreInit ==
  /\ pipeline \in [ProcTeams -> SessionRows]
  /\ sessionAge \in [ProcTeams -> RowAges \cup {0}]
  /\ \A t \in ProcTeams : sessionAge[t] = 0 <=> pipeline[t].status = "none"
  /\ health = NoHealth

\* the rows a lost run leaves behind: no row, or a row in a processing status
LostRunRows == {row \in SessionRows : row.status \in ProcessingStatuses \cup {"none"}}

LostRunStoreInit ==
  /\ pipeline \in [ProcTeams -> LostRunRows]
  /\ sessionAge \in [ProcTeams -> RowAges \cup {0}]
  /\ \A t \in ProcTeams : sessionAge[t] = 0 <=> pipeline[t].status = "none"
  /\ health = NoHealth

\* the effect of a set of teams being enqueued on the queue's variables
SetQueueAfterEnqueue(S) ==
  LET q == EnqueueAll(QueueState, S)
  IN /\ SetQueue(q)
     /\ added' = added + (NumItems(q.inFlight) + Len(q.waiting))
                       - (NumItems(inFlight) + Len(waitingQueue))
     /\ teamsSeen' = teamsSeen
     /\ lastOp' = IF S = {} THEN lastOp ELSE "addTeam"

\* checkStuckTeams(): the query, then recoverStuckTeam for every row found
checkStuckTeams(queryOk) ==
  LET stuck == IF queryOk
               THEN {t \in ProcTeams : IsStuck(pipeline[t], sessionAge[t])}
               ELSE {}
      r == [t \in ProcTeams |-> recoverStuckTeam(pipeline[t])]
  IN /\ pipeline' = [t \in ProcTeams |->
                       IF t \in stuck THEN [pipeline[t] EXCEPT !.status = r[t].status]
                                      ELSE pipeline[t]]
     /\ SetQueueAfterEnqueue({t \in stuck : r[t].enqueue})
     /\ health' = [op |-> "sweep",
                   action |-> [t \in ProcTeams |->
                                 IF t \in stuck THEN r[t].action ELSE ""],
                   addCalls |-> [t \in ProcTeams |->
                                   IF t \in stuck /\ r[t].enqueue THEN 1 ELSE 0]]
     /\ UNCHANGED sessionAge

\* manualRecovery(teamIds), the ids listed in ascending order: no session and
\* complete are answered without recoverStuckTeam.  found holds the teams for
\* which getAssignmentForTeam reached the store; for the others it caught an
\* error and returned null.
manualRecovery(teamIds, found) ==
  LET noSession == {t \in teamIds : t \notin found \/ pipeline[t].status = "none"}
      complete == {t \in teamIds \ noSession : pipeline[t].status = "complete"}
      recovered == teamIds \ (noSession \cup complete)
      r == [t \in ProcTeams |-> recoverStuckTeam(pipeline[t])]
  IN /\ pipeline' = [t \in ProcTeams |->
                       IF t \in recovered
                       THEN [pipeline[t] EXCEPT !.status = r[t].status]
                       ELSE pipeline[t]]
     /\ SetQueueAfterEnqueue({t \in recovered : r[t].enqueue})
     /\ health' = [op |-> "manual",
                   action |-> [t \in ProcTeams |->
                                 IF t \notin teamIds THEN ""
                                 ELSE IF t \in noSession THEN "no_session_found"
                                 ELSE IF t \in complete THEN "already_complete"
                                 ELSE r[t].action],
                   addCalls |-> [t \in ProcTeams |->
                                   IF t \in recovered /\ r[t].enqueue THEN 1 ELSE 0]]
     /\ UNCHANGED sessionAge

\* an administrator calls manualRecovery, once, with a non-empty list of teams
ManualRecovery ==
  /\ health = NoHealth
  /\ \E teamIds \in SUBSET ProcTeams \ {{}} : \E found \in SUBSET teamIds :
       manualRecovery(teamIds, found)

\* the rows manualRecovery can be called on: any status, younger or older
\* than the threshold of the sweep
ManualStoreInit ==
  /\ pipeline \in [ProcTeams -> SessionRows]
  /\ sessionAge \in [ProcTeams -> {0, STUCK_THRESHOLD - 1, STUCK_THRESHOLD + 1}]
  /\ \A t \in ProcTeams : sessionAge[t] = 0 <=> pipeline[t].status = "none"
  /\ health = NoHealth

\* time passes: every row gets older (ages beyond the threshold are alike)
Tick ==
  /\ \E t \in ProcTeams : sessionAge[t] \notin {0, STUCK_THRESHOLD + 1}
  /\ sessionAge' = [t \in ProcTeams |->
                      IF sessionAge[t] \in {0, STUCK_THRESHOLD + 1}
                      THEN sessionAge[t] ELSE sessionAge[t] + 1]
  /\ UNCHANGED <<queueVars, pipeline, health>>

HealthNext ==
  \/ \E queryOk \in BOOLEAN : checkStuckTeams(queryOk)
  \/ \E t \in ProcTeams : manualRecovery({t}, {t})
  \/ Tick

\* the periodic sweep of startHealthChecker alone
SweepNext ==
  \/ \E queryOk \in BOOLEAN : checkStuckTeams(queryOk)
  \/ Tick

(***************************************************************************)
(* AssignmentSessionManager.createAssignmentSession(teamId), called by     *)
(* several writers for one team.  A writer is suspended at its awaits:     *)
(* getTeam, the insert, the re-fetch.  Writer w generates the row id w     *)
(* (uuidv4); a row that was there before has the id NumWriters + 1.        *)
(***************************************************************************)
Writers == 1..NumWriters
ExistingId == NumWriters + 1
NoSession == 0

NewWriter == [pc |-> "start", success |-> FALSE, session |-> NoSession]

\* the insert under assignment_sessions_team_id_key UNIQUE(team_id): a second
\* row for the team is refused with error code 23505
insertSession(rows, id) ==
  IF rows = {} THEN [rows |-> {id}, error |-> "none"]
               ELSE [rows |-> rows, error |-> "23505"]

\* line 289: error.code === '23505' && error.message.includes('team_id')
IsDuplicateTeamKey_Never(error) == FALSE
IsDuplicateTeamKey(error) == error = "23505"

\* getAssignmentForTeam(teamId): the team's row, or null
getAssignmentForTeam(rows) ==
  IF rows = {} THEN NoSession ELSE CHOOSE id \in rows : TRUE

SessIdle == sessionRows = {} /\ writers = [w \in Writers |-> NewWriter]

\* the team has no session row yet, or has one already
SessStoreInit ==
  /\ sessionRows \in {{}, {ExistingId}}
  /\ writers = [w \in Writers |-> NewWriter]

\* lines 255-258: getTeam returned the team
CreateGetsTeam(w) ==
  /\ writers[w].pc = "start"
  /\ writers' = [writers EXCEPT ![w].pc = "inserting"]
  /\ UNCHANGED sessionRows

\* lines 281-311: the insert settles
CreateInserts(w) ==
  /\ writers[w].pc = "inserting"
  /\ LET r == insertSession(sessionRows, w)
     IN /\ sessionRows' = r.rows
        /\ writers' =
             [writers EXCEPT ![w] =
                IF r.error = "none"
                THEN [pc |-> "done", success |-> TRUE, session |-> w]
                ELSE IF IsDuplicateTeamKey(r.error)
                THEN [@ EXCEPT !.pc = "refetching"]
                ELSE [pc |-> "done", success |-> FALSE, session |-> NoSession]]

\* lines 291-298: the re-fetch after the conflict settles
CreateRefetches(w) ==
  /\ writers[w].pc = "refetching"
  /\ LET existingSession == getAssignmentForTeam(sessionRows)
     IN writers' =
          [writers EXCEPT ![w] =
             IF existingSession # NoSession
             THEN [pc |-> "done", success |-> TRUE, session |-> existingSession]
             ELSE [pc |-> "done", success |-> FALSE, session |-> NoSession]]
  /\ UNCHANGED sessionRows

SessNext ==
  \/ \E w \in Writers : CreateGetsTeam(w)
  \/ \E w \in Writers : CreateInserts(w)
  \/ \E w \in Writers : CreateRefetches(w)

(***************************************************************************)
(* Scorer.generateScoreMatrix (src/src/lib/services/scorer.ts).  A parsed  *)
(* JSON value is a record: an array carries its items, a cell its type and *)
(* value.  An error is described by its kind, the HTTP status if it is a   *)
(* response that was not ok (0 otherwise) and the set of the substrings    *)
(* tested by isRetryableError that occur in its lower-cased message.       *)
(* scorer holds the call's arguments (teamSize, rolesCount), the           *)
(* retryCount parameter of the current attempt, the number of requests     *)
(* sent to the model so far (calls), the parsed response and the error of  *)
(* the last attempt, and the result once the call has returned.            *)
(***************************************************************************)
RowLengths == {1, 2}
Cells ==
  {[type |-> "number", value |-> v] : v \in {0 - 1, 100, 101}}
    \cup {[type |-> "string", value |-> 50]}
NotArray == [isArray |-> FALSE, items |-> <<>>]
Array(items) == [isArray |-> TRUE, items |-> items]

ParsedRows ==
  {NotArray} \cup UNION {{Array(r) : r \in [1..n -> Cells]} : n \in RowLengths}
ParsedResponses ==
  {NotArray}
    \cup UNION {{Array(m) : m \in [1..n -> ParsedRows]} : n \in 1..MaxParsedRows}

NoError == [kind |-> "none", status |-> 0, keywords |-> {}]
NetworkKeywords == {"network", "timeout", "fetch"}
RateLimitKeywords == {"rate limit", "429", "too many requests"}
ServerErrorKeywords == {"500", "502", "503", "504"}

\* lines 361-379: substring tests on the lower-cased error message
isRetryableError(error) ==
  \/ error.keywords \cap NetworkKeywords # {}
  \/ error.keywords \cap RateLimitKeywords # {}
  \/ error.keywords \cap ServerErrorKeywords # {}

\* line 267: typeof score !== 'number' || score < 0 || score > 100
CellValid_Clamped(cell) == cell.type = "number"
CellValid(cell) == cell.type = "number" /\ cell.value >= 0 /\ cell.value <= 100

\* lines 252-270: the error thrown for the parsed response, or NoError; none
\* of the messages holds a substring tested by isRetryableError
validateParsed(parsed, teamSize, rolesCount) ==
  IF ~parsed.isArray \/ Len(parsed.items) # teamSize
  THEN [kind |-> "shape", status |-> 0, keywords |-> {}]
  ELSE IF \E i \in 1..teamSize :
            ~parsed.items[i].isArray \/ Len(parsed.items[i].items) # rolesCount
  THEN [kind |-> "row", status |-> 0, keywords |-> {}]
  ELSE IF \E i \in 1..teamSize : \E j \in 1..rolesCount :
            ~CellValid(parsed.items[i].items[j])
  THEN [kind |-> "cell", status |-> 0, keywords |-> {}]
  ELSE NoError

NoScores == NotArray
NewScorerCall(teamSize, rolesCount) ==
  [teamSize |-> teamSize, rolesCount |-> rolesCount, retryCount |-> 0,
   calls |-> 1, pc |-> "calling", response |-> NotArray, error |-> NoError,
   success |-> FALSE, scores |-> NoScores]

\* lines 277-292: the catch block of an attempt that threw error
attemptFailed(sc, error) ==
  IF isRetryableError(error) /\ sc.retryCount < SCORER_MAX_RETRIES
  THEN [sc EXCEPT !.pc = "delaying", !.error = error]
  ELSE [sc EXCEPT !.pc = "done", !.error = error, !.success = FALSE,
                  !.scores = NoScores]

\* lines 240-275: the response content was parsed to the value parsed
contentParsed(sc, parsed) ==
  LET error == validateParsed(parsed, sc.teamSize, sc.rolesCount)
      sc1 == [sc EXCEPT !.response = parsed]
  IN IF error = NoError
     THEN [sc1 EXCEPT !.pc = "done", !.error = NoError, !.success = TRUE,
                      !.scores = parsed]
     ELSE attemptFailed(sc1, error)

\* lines 285-286: the delay is over, the next attempt sends its request
retryStarted(sc) ==
  [sc EXCEPT !.pc = "calling", !.retryCount = @ + 1, !.calls = @ + 1]

ScorerIdle == scorer = [NewScorerCall(1, 1) EXCEPT !.pc = "idle", !.calls = 0]

\* a call for a complete team with at least as many roles as members
ScorerInit ==
  \E rolesCount \in RowLengths : \E teamSize \in 1..rolesCount :
    scorer = NewScorerCall(teamSize, rolesCount)

\* the model answers with content that parses to the JSON value parsed
ContentArrives(parsed) ==
  /\ scorer.pc = "calling"
  /\ scorer' = contentParsed(scorer, parsed)

\* the attempt throws before validation: fetch rejects, the response is not
\* ok, it has no content, or the content does not parse
AttemptThrows(error) ==
  /\ scorer.pc = "calling"
  /\ scorer' = attemptFailed([scorer EXCEPT !.response = NotArray], error)

DelayElapses ==
  /\ scorer.pc = "delaying"
  /\ scorer' = retryStarted(scorer)

\* what the free text of a message (the body of a response that was not ok,
\* the SyntaxError text quoting the content) may contain
FreeTexts == {{}, {"500"}, {"timeout"}}
HttpStatuses == {400, 429, 500, 501}
StatusKeywords(status) ==
  {k \in RateLimitKeywords \cup ServerErrorKeywords : k = ToString(status)}

\* the errors an attempt throws before validation:
\*   line 219, fetch rejects with TypeError("fetch failed")
\*   line 230, `OpenAI API error: ${response.status} - ${errorText}`
\*   line 237, no content
\*   line 249, `解析LLM回應失敗：${parseError}`
ThrownErrors ==
  {[kind |-> "network", status |-> 0, keywords |-> {"fetch"}],
   [kind |-> "noContent", status |-> 0, keywords |-> {}]}
    \cup {[kind |-> "http", status |-> st, keywords |-> StatusKeywords(st) \cup txt] :
            st \in HttpStatuses, txt \in FreeTexts}
    \cup {[kind |-> "parse", status |-> 0, keywords |-> txt] : txt \in FreeTexts}

ValidResponse(teamSize, rolesCount) ==
  Array([i \in 1..teamSize |->
           Array([j \in 1..rolesCount |-> [type |-> "number", value |-> 100]])])

\* a call whose attempts may fail in every way
ScorerRetryNext ==
  \/ \E error \in ThrownErrors : AttemptThrows(error)
  \/ \E parsed \in {NotArray, ValidResponse(scorer.teamSize, scorer.rolesCount)} :
       ContentArrives(parsed)
  \/ DelayElapses

\* the validation of every parsed response
ScorerValidationNext ==
  \E parsed \in ParsedResponses : ContentArrives(parsed)

(***************************************************************************)
(* Scorer.generateScoreMatricesBatch (scorer.ts, lines 39-173) and         *)
(* JustifierRunner.generateJustificationsBatch (part_008, lines 66-214).   *)
(* The two methods have the same body; they differ in the lists whose      *)
(* lengths are compared and in the per-team call.  The teams of the input  *)
(* list are 1..teams and teams[i].id = i.  A step is what runs between two *)
(* awaits: the call up to the first Promise.allSettled, a chunk that       *)
(* settles, the retry pass that settles.  A per-team promise settles as a  *)
(* success result, a failure result, or a rejection that the .catch turns  *)
(* into a failure result.  firstOutcome and retryOutcome record, per team, *)
(* how its promise of the first pass and of the retry pass settled.        *)
(* running counts the per-team calls (generateScoreMatrixWithRetry or      *)
(* generateJustificationsWithRetry) that were started and have not settled *)
(* yet; delayed counts the promises of the retry pass that are still in    *)
(* their random delay.                                                     *)
(***************************************************************************)
BatchMethods == {"generateScoreMatricesBatch", "generateJustificationsBatch"}
TeamOutcomes == {"success", "failure", "rejected"}
Concurrencies == 1..MaxConcurrency

NoBatchResult ==
  [success |-> FALSE, results |-> <<>>, returned |-> FALSE,
   summary |-> [total |-> 0, successful |-> 0, failed |-> 0]]

NewBatchCall(method, teams, rolesLen, assignmentsLen, maxConcurrency, retryFailedRequests) ==
  [method |-> method, teams |-> teams, rolesLen |-> rolesLen,
   assignmentsLen |-> assignmentsLen, maxConcurrency |-> maxConcurrency,
   retryFailedRequests |-> retryFailedRequests,
   pc |-> "called", i |-> 0, allResults |-> <<>>, running |-> 0, delayed |-> 0,
   firstOutcome |-> [t \in 1..teams |-> "none"],
   retryOutcome |-> [t \in 1..teams |-> "none"],
   result |-> NoBatchResult]

\* if (teams.length !== rolesArray.length [|| teams.length !== assignments.length])
lengthsDiffer(b) ==
  \/ b.teams # b.rolesLen
  \/ b.method = "generateJustificationsBatch" /\ b.teams # b.assignmentsLen

\* createBatches(items, batchSize): slices of batchSize items, the last one
\* shorter; an item is named by its index in the input list
createBatches(n, batchSize) ==
  [k \in 1..((n + batchSize - 1) \div batchSize) |->
     [j \in 1..(IF k * batchSize <= n THEN batchSize ELSE n - (k - 1) * batchSize)
        |-> (k - 1) * batchSize + j]]

\* the value a per-team promise is fulfilled with, after .then / .catch
teamResult(teamId, outcome) ==
  [teamId |-> teamId, success |-> outcome = "success"]

\* allResults.filter(r => !r.success)
RECURSIVE failedOf(_)
failedOf(results) ==
  IF results = <<>> THEN <<>>
  ELSE IF Head(results).success THEN failedOf(Tail(results))
       ELSE <<Head(results)>> \o failedOf(Tail(results))

\* allResults.findIndex(r => r.teamId === teamId), 0 for -1
findIndex(results, teamId) ==
  IF \E k \in 1..Len(results) : results[k].teamId = teamId
  THEN CHOOSE k \in 1..Len(results) :
         /\ results[k].teamId = teamId
         /\ \A l \in 1..(k - 1) : results[l].teamId # teamId
  ELSE 0

\* const originalIndex = allResults.findIndex(...);
\* if (originalIndex >= 0) allResults[originalIndex] = retryResult.value
applyRetry_Push(results, teamId, value) == Append(results, value)
applyRetry(results, teamId, value) ==
  LET originalIndex == findIndex(results, teamId)
  IN IF originalIndex > 0 THEN [results EXCEPT ![originalIndex] = value]
     ELSE results

\* retryResults.forEach((retryResult, index) => ...)
RECURSIVE applyRetries(_, _, _, _)
applyRetries(results, failed, outcomes, index) ==
  IF index > Len(failed) THEN results
  ELSE applyRetries(
         applyRetry(results, failed[index].teamId,
                    teamResult(failed[index].teamId, outcomes[index])),
         failed, outcomes, index + 1)

\* lines 160-172: count and return
batchReturned(b) ==
  LET successful == Len(b.allResults) - Len(failedOf(b.allResults))
  IN [b EXCEPT !.pc = "done",
        !.result = [success |-> successful > 0, results |-> b.allResults,
                    returned |-> TRUE,
                    summary |-> [total |-> Len(b.allResults),
                                 successful |-> successful,
                                 failed |-> Len(b.allResults) - successful]]]

\* lines 63-69: the lists differ in length
batchRefused(b) == [b EXCEPT !.pc = "done", !.result.returned = TRUE]

\* batch.map(...): the per-team calls of chunk k are all started
chunkStarted(b, k) ==
  [b EXCEPT !.pc = "chunks", !.i = k,
            !.running = Len(createBatches(b.teams, b.maxConcurrency)[k])]

\* failedResults.map(async ...): every failed team gets a promise that first
\* awaits delay(Math.random() * 2000), whatever maxConcurrency is
retryPassStarted(b) ==
  [b EXCEPT !.pc = "retrying", !.delayed = Len(failedOf(b.allResults))]

\* the random delay of one retry promise is over: its per-team call starts
retryDelayElapsed(b) == [b EXCEPT !.delayed = @ - 1, !.running = @ + 1]

\* one per-team call settles
operationSettled(b) == [b EXCEPT !.running = @ - 1]

\* after the loop over the chunks: the retry pass is awaited when it is
\* enabled and a result failed, otherwise the method returns
afterChunks(b) ==
  IF b.retryFailedRequests /\ failedOf(b.allResults) # <<>>
  THEN retryPassStarted(b)
  ELSE batchReturned(b)

\* the promises of chunk b.i settled with outcomes: results are pushed in the
\* order of the chunk
chunkSettled(b, outcomes) ==
  LET chunk == createBatches(b.teams, b.maxConcurrency)[b.i]
      b1 == [b EXCEPT
               !.allResults = @ \o [j \in 1..Len(chunk) |->
                                      teamResult(chunk[j], outcomes[j])],
               !.firstOutcome = [t \in 1..b.teams |->
                                   IF \E j \in 1..Len(chunk) : chunk[j] = t
                                   THEN outcomes[CHOOSE j \in 1..Len(chunk) : chunk[j] = t]
                                   ELSE @[t]]]
  IN IF b.i < Len(createBatches(b.teams, b.maxConcurrency))
     THEN chunkStarted(b1, b.i + 1)
     ELSE afterChunks(b1)

\* the promises of the retry pass settled with outcomes, one per failed result
retrySettled(b, outcomes) ==
  LET failed == failedOf(b.allResults)
  IN batchReturned(
       [b EXCEPT
          !.allResults = applyRetries(@, failed, outcomes, 1),
          !.retryOutcome = [t \in 1..b.teams |->
                              IF \E k \in 1..Len(failed) : failed[k].teamId = t
                              THEN outcomes[CHOOSE k \in 1..Len(failed) : failed[k].teamId = t]
                              ELSE @[t]]])

BatchIdle ==
  batch = [NewBatchCall("generateScoreMatricesBatch", 0, 0, 0, 1, FALSE)
             EXCEPT !.pc = "idle"]

\* a call of one of the two methods
BatchInit ==
  \E method \in BatchMethods : \E teams, rolesLen, assignmentsLen \in 0..MaxBatchTeams :
    \E maxConcurrency \in Concurrencies : \E retryFailedRequests \in BOOLEAN :
      /\ method = "generateScoreMatricesBatch" => assignmentsLen = teams
      /\ batch = NewBatchCall(method, teams, rolesLen, assignmentsLen,
                              maxConcurrency, retryFailedRequests)

\* the call runs up to its first await
BatchStarts ==
  /\ batch.pc = "called"
  /\ batch' = IF lengthsDiffer(batch) THEN batchRefused(batch)
              ELSE IF batch.teams = 0 THEN afterChunks(batch)
              ELSE chunkStarted(batch, 1)

\* await Promise.allSettled(batchPromises)
ChunkSettles ==
  /\ batch.pc = "chunks"
  /\ batch.running = 0
  /\ \E outcomes \in [1..Len(createBatches(batch.teams, batch.maxConcurrency)[batch.i])
                        -> TeamOutcomes] :
       batch' = chunkSettled(batch, outcomes)

\* await Promise.allSettled(retryPromises)
RetrySettles ==
  /\ batch.pc = "retrying"
  /\ batch.delayed = 0 /\ batch.running = 0
  /\ \E outcomes \in [1..Len(failedOf(batch.allResults)) -> TeamOutcomes] :
       batch' = retrySettled(batch, outcomes)

\* a per-team call of the chunk or of the retry pass settles
OperationSettles ==
  /\ batch.pc \in {"chunks", "retrying"}
  /\ batch.running > 0
  /\ batch' = operationSettled(batch)

\* await this.delay(Math.random() * 2000) of one retry promise is over
RetryDelayElapses ==
  /\ batch.pc = "retrying"
  /\ batch.delayed > 0
  /\ batch' = retryDelayElapsed(batch)

BatchNext ==
  BatchStarts \/ OperationSettles \/ ChunkSettles \/ RetryDelayElapses \/ RetrySettles

(***************************************************************************)
(* JustifierService.generateJustifications (JustifierService.ts), the      *)
(* handling of the parsed response, lines 98-159.  The team has the        *)
(* members 1..n; member m has the id ApplicantIds[m] and the name          *)
(* names[m], and the assignment has one entry per member, in this order.   *)
(* An entry of the response is its applicantId string (a key) and its      *)
(* justification text; a text is named by the entry it came in (of) and    *)
(* described by its form: plain, padded (white space around it), blank     *)
(* (white space only), empty, or tooLong (more than 500 characters).       *)
(***************************************************************************)
ApplicantIds == <<"id1", "id2", "id3", "id4">>
Names == {"Ann", "Bob"}
MissingKey == ""
Keys(n) == {ApplicantIds[m] : m \in 1..n} \cup Names \cup {"other", MissingKey}
TextForms == {"plain", "padded", "blank", "empty", "tooLong"}
NoText == [of |-> 0, form |-> "none"]

\* justification.justification.trim()
trim(text) ==
  CASE text.form = "padded" -> [text EXCEPT !.form = "plain"]
    [] text.form = "blank" -> [text EXCEPT !.form = "empty"]
    [] OTHER -> text

\* line 121: justification.justification.length > 500
textTooLong_Never(text) == FALSE
textTooLong(text) == text.form = "tooLong"

\* !value for a string or undefined
Falsy(text) == text.form \in {"empty", "none"}

\* lines 109-115: nameToIdMap, the last member of a name wins
nameToId(n, names, name) ==
  IF \E m \in 1..n : names[m] = name
  THEN ApplicantIds[CHOOSE m \in 1..n :
                      /\ names[m] = name
                      /\ \A l \in (m + 1)..n : names[l] # name]
  ELSE MissingKey

\* lines 126-135: the id the entry is stored under
actualApplicantId_NoFallback(n, names, key) == key
actualApplicantId(n, names, key) ==
  IF \E m \in 1..n : ApplicantIds[m] = key THEN key
  ELSE IF nameToId(n, names, key) # MissingKey THEN nameToId(n, names, key)
  ELSE key

\* lines 117-138: the loop over the entries of the response, from entry k
\* with the justificationMap map; it ends at the first throw
RECURSIVE collect(_, _, _, _, _)
collect(n, names, response, k, map) ==
  IF k > Len(response) THEN [error |-> "none", map |-> map]
  ELSE IF response[k].key = MissingKey \/ Falsy(response[k].text)
  THEN [error |-> "format", map |-> map]
  ELSE IF textTooLong(response[k].text)
  THEN [error |-> "tooLong", map |-> map]
  ELSE collect(n, names, response, k + 1,
               [map EXCEPT ![actualApplicantId(n, names, response[k].key)] =
                             trim(response[k].text)])

NoJustifications == [m \in 1..0 |-> NoText]

\* lines 98-159: validate the count, collect, attach, return; a throw is
\* caught at line 161 and gives { success: false }
handleResponse(j, response) ==
  IF Len(response) # j.n
  THEN [j EXCEPT !.pc = "done", !.response = response, !.error = "count"]
  ELSE LET c == collect(j.n, j.names, response, 1, [key \in Keys(j.n) |-> NoText])
       IN IF c.error # "none"
          THEN [j EXCEPT !.pc = "done", !.response = response, !.error = c.error]
          ELSE IF \E m \in 1..j.n : Falsy(c.map[ApplicantIds[m]])
          THEN [j EXCEPT !.pc = "done", !.response = response, !.error = "notFound"]
          ELSE [j EXCEPT !.pc = "done", !.response = response, !.success = TRUE,
                         !.justifications = [m \in 1..j.n |-> c.map[ApplicantIds[m]]]]

NewJustifierCall(n, names) ==
  [n |-> n, names |-> names, pc |-> "calling", response |-> <<>>,
   success |-> FALSE, error |-> "none", justifications |-> NoJustifications]

NoTeamAssignment ==
  [n |-> 0, justifications |-> <<>>, justificationsGenerated |-> FALSE,
   last |-> [op |-> "none", success |-> FALSE]]
TeamAssignmentIdle == teamAssignment = NoTeamAssignment

NewRunnerCall ==
  [retryCount |-> 0, calls |-> 1, pc |-> "awaiting", success |-> FALSE,
   failure |-> NoError]

RunnerIdle == runner = [NewRunnerCall EXCEPT !.pc = "idle", !.calls = 0]

JustifierCallIdle ==
  justifier = [NewJustifierCall(1, [m \in 1..1 |-> "Ann"]) EXCEPT !.pc = "idle"]
JustifierIdle == JustifierCallIdle /\ TeamAssignmentIdle /\ RunnerIdle

\* a call for a complete team and its assignment
JustifierInit ==
  \E n \in 1..MaxMembers : \E names \in [1..n -> Names] :
    justifier = NewJustifierCall(n, names) /\ TeamAssignmentIdle /\ RunnerIdle

Entries(n) ==
  {[key |-> key, text |-> [of |-> 0, form |-> form]] :
     key \in Keys(n), form \in TextForms}

\* the model's content parsed to an array of entries
ResponseParsed ==
  /\ justifier.pc = "calling"
  /\ \E len \in 1..justifier.n : \E response \in [1..len -> Entries(justifier.n)] :
       justifier' = handleResponse(justifier,
                      [e \in 1..len |-> [response[e] EXCEPT !.text.of = e]])

JustNext == ResponseParsed /\ UNCHANGED <<teamAssignment, runner>>

(***************************************************************************)
(* The TeamAssignment value as the three operations that produce one       *)
(* leave it: Assigner.assignRoles (SystemInitializer.ts, lines 147-155),   *)
(* JustifierService.generateJustifications (lines 145-159) and             *)
(* JustifierService.updateAssignmentJustification (lines 327-353).  Of an  *)
(* entry only the form of its justification is kept ("none" when the entry *)
(* has no justification field); last is the operation that returned last   *)
(* and whether it succeeded.                                               *)
(***************************************************************************)
\* assignRoles, lines 147-155: the entries have applicantId, roleId and score
newTeamAssignment(n) ==
  [n |-> n, justifications |-> [m \in 1..n |-> "none"],
   justificationsGenerated |-> FALSE,
   last |-> [op |-> "assignRoles", success |-> TRUE]]

\* generateJustifications, lines 145-159, for the call j that has returned:
\* { ...assignment, assignments: updatedAssignments, justificationsGenerated: true }
justifiedAssignment(ta, j) ==
  IF j.success
  THEN [ta EXCEPT !.justifications = [m \in 1..ta.n |-> j.justifications[m].form],
                  !.justificationsGenerated = TRUE,
                  !.last = [op |-> "generateJustifications", success |-> TRUE]]
  ELSE [ta EXCEPT !.last = [op |-> "generateJustifications", success |-> FALSE]]

\* updateAssignmentJustification(assignment, applicantId, justification):
\* { ...assignment, assignments: updatedAssignments }
updateAssignmentJustification(ta, applicantId, form) ==
  IF form = "tooLong" \/ ~(\E m \in 1..ta.n : ApplicantIds[m] = applicantId)
  THEN [ta EXCEPT !.last = [op |-> "updateAssignmentJustification", success |-> FALSE]]
  ELSE [ta EXCEPT
          !.justifications[CHOOSE m \in 1..ta.n : ApplicantIds[m] = applicantId] = form,
          !.last = [op |-> "updateAssignmentJustification", success |-> TRUE]]

\* assignRoles returned a success for a team of n members
TeamAssignmentInit ==
  \E n \in 1..MaxMembers : teamAssignment = newTeamAssignment(n)

\* the entries of a response that names the members by their ids
IdEntries(n) ==
  {[key |-> ApplicantIds[m], text |-> [of |-> 0, form |-> form]] :
     m \in 1..n, form \in TextForms}

\* generateJustifications(team, roles, assignment, key) returns
JustificationsGenerated ==
  \E response \in [1..teamAssignment.n -> IdEntries(teamAssignment.n)] :
    teamAssignment' =
      justifiedAssignment(
        teamAssignment,
        handleResponse(
          NewJustifierCall(teamAssignment.n, [m \in 1..teamAssignment.n |-> "Ann"]),
          response))

\* updateAssignmentJustification(assignment, applicantId, justification) returns
JustificationUpdated ==
  \E applicantId \in {ApplicantIds[m] : m \in 1..teamAssignment.n} \cup {"other"} :
    \E form \in TextForms :
      teamAssignment' = updateAssignmentJustification(teamAssignment, applicantId, form)

TeamAssignmentNext ==
  (JustificationsGenerated \/ JustificationUpdated) /\ UNCHANGED <<justifier, runner>>

(***************************************************************************)
(* JustifierRunner.generateJustificationsWithRetry (part_008, lines 10-35) *)
(* around JustifierService.generateJustifications.  The service runs its   *)
(* whole body inside a try whose catch (JustifierService.ts, lines         *)
(* 161-166) returns { success: false, error }, so its promise is fulfilled *)
(* whatever happened inside.  runner holds the retryCount parameter, the   *)
(* number of calls of the service so far, the position of the wrapper and  *)
(* what it returned; failure is the error that made the service fail.      *)
(***************************************************************************)
\* the errors thrown inside the service before the response is handled
\* (JustifierService.ts, lines 63-93: fetch, !response.ok, no content, parse)
ServiceErrors == ThrownErrors
ValidationError == [kind |-> "validation", status |-> 0, keywords |-> {}]

\* JustifierService.ts, lines 161-166: the error is caught and returned
serviceCaught(error) ==
  [settled |-> "fulfilled", success |-> FALSE, error |-> error]
\* line 159: return { success: true, updatedAssignment }
serviceReturned == [settled |-> "fulfilled", success |-> TRUE, error |-> NoError]

\* JustifierRunner.isRetryableError, part_008 lines 271-289
runnerIsRetryableError(error) ==
  error.keywords \cap (NetworkKeywords \cup RateLimitKeywords \cup ServerErrorKeywords) # {}

\* part_008 lines 17-34: return await generateJustifications(...), and the
\* catch for a rejection
wrapperAwait(r, settlement) ==
  IF settlement.settled = "fulfilled"
  THEN [r EXCEPT !.pc = "done", !.success = settlement.success,
                 !.failure = settlement.error]
  ELSE IF runnerIsRetryableError(settlement.error)
            /\ r.retryCount < JUSTIFIER_MAX_RETRIES
       THEN [r EXCEPT !.pc = "delaying", !.failure = settlement.error]
       ELSE [r EXCEPT !.pc = "done", !.success = FALSE,
                      !.failure = settlement.error]

\* part_008 lines 26-27: after the delay, the recursive call
wrapperRetries(r) ==
  [r EXCEPT !.pc = "awaiting", !.retryCount = @ + 1, !.calls = @ + 1]

\* generateJustificationsWithRetry(team, roles, assignment, key) for a team
RunnerInit ==
  /\ \E n \in 1..MaxMembers : \E names \in [1..n -> Names] :
       justifier = NewJustifierCall(n, names)
  /\ runner = NewRunnerCall
  /\ TeamAssignmentIdle

\* the request of the service fails and the wrapper's await settles
ServiceRequestFails(error) ==
  /\ justifier' = [justifier EXCEPT !.pc = "done", !.error = error.kind]
  /\ runner' = wrapperAwait(runner, serviceCaught(error))

\* the service handles the parsed response and the wrapper's await settles
ServiceHandlesResponse(response) ==
  LET j == handleResponse(justifier, response)
  IN /\ justifier' = j
     /\ runner' = wrapperAwait(runner, IF j.success THEN serviceReturned
                                       ELSE serviceCaught(ValidationError))

\* the wrapper goes on to its next await or returns
RunnerStep ==
  /\ UNCHANGED teamAssignment
  /\ IF runner.pc = "delaying"
     THEN /\ runner' = wrapperRetries(runner)
          /\ justifier' = NewJustifierCall(justifier.n, justifier.names)
     ELSE /\ runner.pc = "awaiting"
          /\ \/ \E error \in ServiceErrors : ServiceRequestFails(error)
             \/ \E len \in 1..justifier.n :
                  \E response \in [1..len -> Entries(justifier.n)] :
                    ServiceHandlesResponse(
                      [e \in 1..len |-> [response[e] EXCEPT !.text.of = e]])

(***************************************************************************)
(* The Queue, the Processor and the Health Checker on the same sessions.   *)
(* The teams 1..NumTeamsPipeline become complete and are run by the        *)
(* Processor; the Health Checker sweeps the store and recovers by hand     *)
(* while runs and background tasks are in flight.  A row is created by the *)
(* first run of its team; sessionAge is 0 for a row younger than the       *)
(* threshold (or no row) and STUCK_THRESHOLD + 1 once five minutes have    *)
(* passed since its creation.                                              *)
(***************************************************************************)
PipelineTeams == 1..NumTeamsPipeline

\* TeamManager.updateTeamStats runs again for a complete team that was
\* enqueued before: it calls addTeam when the team has no session or its
\* session is pending
TeamCompletesAgain(t) ==
  /\ t <= teamsSeen
  /\ pipeline[t].status \in {"none", "pending"}
  /\ CanAdd(t, MaxAddsWide)
  /\ AddTeam(t)
  /\ UNCHANGED pipeline

\* more than STUCK_THRESHOLD ms pass since the rows present were created
RowsGrowOld ==
  /\ \E t \in PipelineTeams :
       pipeline[t].status # "none" /\ sessionAge[t] # STUCK_THRESHOLD + 1
  /\ sessionAge' = [t \in ProcTeams |->
                      IF pipeline[t].status # "none" THEN STUCK_THRESHOLD + 1
                      ELSE sessionAge[t]]
  /\ UNCHANGED <<queueVars, pipeline, health>>

PipelineProcNext ==
  \/ \E t \in PipelineTeams : TeamCompletes(t)
  \/ \E t \in PipelineTeams : \E ok \in BOOLEAN : BeginRun(t, ok)
  \/ \E t \in PipelineTeams : \E outcome \in {"ok", "failed", "threw"} :
       ScoringSettles(t, outcome)
  \/ \E t \in PipelineTeams : \E ok \in BOOLEAN : MatchingSettles(t, ok)
  \/ \E t \in PipelineTeams : \E ok \in BOOLEAN : SaveSettles(t, ok)
  \/ \E t \in PipelineTeams : \E outcome \in JustificationOutcomes :
       JustificationSettles(t, outcome)
  \/ \E t \in PipelineTeams : \E found, saved \in BOOLEAN :
       RefetchSettles(t, found, saved)
  \/ \E item \in ItemsIn(retryTimers) : RetryTimerFires(item) /\ UNCHANGED pipeline

PipelineNext ==
  \/ PipelineProcNext /\ UNCHANGED healthVars
  \/ \E queryOk \in BOOLEAN : checkStuckTeams(queryOk)
  \/ \E t \in PipelineTeams : manualRecovery({t}, {t})
  \/ RowsGrowOld

(***************************************************************************)
(* The Queue with more complete teams than slots.  The runs of the teams   *)
(* in PipelineTeams are followed through the Processor; the runs of the    *)
(* other teams are seen from the queue only, as promises that resolve.     *)
(***************************************************************************)
OtherRunResolves(item) ==
  /\ item.teamId \notin PipelineTeams
  /\ RunSucceeds(item)
  /\ UNCHANGED pipeline

SlotsNext ==
  \/ \E t \in Teams : added < MaxAddsWide /\ TeamCompletes(t)
  \/ \E t \in PipelineTeams : TeamCompletesAgain(t)
  \/ \E t \in PipelineTeams : \E ok \in BOOLEAN : BeginRun(t, ok)
  \/ \E t \in PipelineTeams : \E outcome \in {"ok", "failed", "threw"} :
       ScoringSettles(t, outcome)
  \/ \E t \in PipelineTeams : \E ok \in BOOLEAN : MatchingSettles(t, ok)
  \/ \E t \in PipelineTeams : \E ok \in BOOLEAN : SaveSettles(t, ok)
  \/ \E t \in PipelineTeams : \E outcome \in JustificationOutcomes :
       JustificationSettles(t, outcome)
  \/ \E t \in PipelineTeams : \E found, saved \in BOOLEAN :
       RefetchSettles(t, found, saved)
  \/ \E item \in ItemsIn(inFlight) : OtherRunResolves(item)
  \/ \E item \in ItemsIn(retryTimers) : RetryTimerFires(item) /\ UNCHANGED pipeline

(***************************************************************************)
(* Assigner.getAssignmentStats.  A score is a real number of [0,100]; the  *)
(* model holds the rational u / ScoreResolution as the integer u, so that  *)
(* a comparison score >= n reads u >= n * ScoreResolution.                 *)
(***************************************************************************)
\* calculateScoreDistribution, lines 232-239
ranges ==
  << [range |-> "90-100", min |-> 90, max |-> 100],
     [range |-> "80-89", min |-> 80, max |-> 89],
     [range |-> "70-79", min |-> 70, max |-> 79],
     [range |-> "60-69", min |-> 60, max |-> 69],
     [range |-> "50-59", min |-> 50, max |-> 59],
     [range |-> "0-49", min |-> 0, max |-> 49] >>

\* line 243: score >= range.min && score <= range.max
inRange(score, range) ==
  /\ score >= range.min * ScoreResolution
  /\ score <= range.max * ScoreResolution

calculateScoreDistribution(scores) ==
  [i \in 1..Len(ranges) |->
     [range |-> ranges[i].range,
      count |-> Cardinality({k \in 1..Len(scores) : inRange(scores[k], ranges[i])})]]

\* Math.min(...scores), Math.max(...scores)
minOf(scores) ==
  CHOOSE x \in {scores[k] : k \in 1..Len(scores)} :
    \A k \in 1..Len(scores) : x <= scores[k]
maxOf(scores) ==
  CHOOSE x \in {scores[k] : k \in 1..Len(scores)} :
    \A k \in 1..Len(scores) : x >= scores[k]

\* getAssignmentStats(assignment); averageScore is the quotient of its two
\* fields
getAssignmentStats(assignment) ==
  [totalScore |-> assignment.totalScore,
   averageScore |-> [dividend |-> assignment.totalScore,
                     divisor |-> Len(assignment.scores)],
   minScore |-> minOf(assignment.scores),
   maxScore |-> maxOf(assignment.scores),
   scoreDistribution |-> calculateScoreDistribution(assignment.scores)]

\* the scores of [0,100] within 1 / ScoreResolution of a bound of a range
StatScores ==
  {u \in 0..(ranges[1].max * ScoreResolution) :
     \E i \in 1..Len(ranges) :
       \/ u - ranges[i].min * ScoreResolution \in -1..1
       \/ u - ranges[i].max * ScoreResolution \in -1..1}

\* a TeamAssignment with at least one entry, as assignRoles builds it
StatsInit ==
  /\ \E n \in 1..MaxStatEntries : \E scores \in [1..n -> StatScores] :
       asgInput = [totalScore |-> SumSeq(scores), scores |-> scores]
  /\ asgResult = NoResult

GetAssignmentStats ==
  /\ asgResult = NoResult
  /\ asgResult' = getAssignmentStats(asgInput)
  /\ UNCHANGED asgInput

StatsNext == GetAssignmentStats /\ UNCHANGED <<queueVars, procVars, healthVars, sessVars, scorerVars, batchVars, justVars>>

(***************************************************************************)
(* A burst of complete teams, each run followed through the Processor.     *)
(* Every stage succeeds, so that a run is in flight from its admission to  *)
(* the start of its background task and makes no retry; the background     *)
(* task may end in any of its outcomes.                                    *)
(***************************************************************************)
LoadTeams == 1..NumTeamsLoad

LoadIdle == pipeline = [t \in LoadTeams |-> NoPipeline]

LoadNext ==
  \/ \E t \in LoadTeams : TeamCompletes(t)
  \/ \E t \in LoadTeams : BeginRun(t, TRUE)
  \/ \E t \in LoadTeams : ScoringSettles(t, "ok")
  \/ \E t \in LoadTeams : MatchingSettles(t, TRUE)
  \/ \E t \in LoadTeams : SaveSettles(t, TRUE)
  \/ \E t \in LoadTeams : \E outcome \in JustificationOutcomes :
       JustificationSettles(t, outcome)
  \/ \E t \in LoadTeams : \E found, saved \in BOOLEAN :
       RefetchSettles(t, found, saved)

Init == QueueInit /\ AsgIdle /\ ProcIdle /\ HealthIdle /\ SessIdle /\ ScorerIdle /\ BatchIdle /\ JustifierIdle
AssignerInit == QueueInit /\ AsgInit /\ ProcIdle /\ HealthIdle /\ SessIdle /\ ScorerIdle /\ BatchIdle /\ JustifierIdle
HealthInit == QueueInit /\ AsgIdle /\ HealthStoreInit /\ SessIdle /\ ScorerIdle /\ BatchIdle /\ JustifierIdle
LostRunInit == QueueInit /\ AsgIdle /\ LostRunStoreInit /\ SessIdle /\ ScorerIdle /\ BatchIdle /\ JustifierIdle
SessionsInit == QueueInit /\ AsgIdle /\ ProcIdle /\ HealthIdle /\ SessStoreInit /\ ScorerIdle /\ BatchIdle /\ JustifierIdle
Next == QueueNext /\ UNCHANGED <<asgVars, procVars, healthVars, sessVars, scorerVars, batchVars, justVars>>
WideNext == QueueWideNext /\ UNCHANGED <<asgVars, procVars, healthVars, sessVars, scorerVars, batchVars, justVars>>
RetryNext == QueueRetryNext /\ UNCHANGED <<asgVars, procVars, healthVars, sessVars, scorerVars, batchVars, justVars>>
ProcessorNext == ProcNext /\ UNCHANGED <<asgVars, healthVars, sessVars, scorerVars, batchVars, justVars>>
HealthCheckerNext == HealthNext /\ UNCHANGED <<asgVars, sessVars, scorerVars, batchVars, justVars>>
HealthSweepNext == SweepNext /\ UNCHANGED <<asgVars, sessVars, scorerVars, batchVars, justVars>>
SessionsNext == SessNext /\ UNCHANGED <<queueVars, asgVars, procVars, healthVars, scorerVars, batchVars, justVars>>
OtherThanScorer == <<queueVars, asgVars, procVars, healthVars, sessVars, batchVars, justVars>>
ScorerStartInit ==
  QueueInit /\ AsgIdle /\ ProcIdle /\ HealthIdle /\ SessIdle /\ ScorerInit /\ BatchIdle /\ JustifierIdle
ValidationNext == ScorerValidationNext /\ UNCHANGED OtherThanScorer
ScorerCallNext == ScorerRetryNext /\ UNCHANGED OtherThanScorer
Spec == Init /\ [][Next]_vars
SpecQueueWide == Init /\ [][WideNext]_vars
SpecQueueRetry == Init /\ [][RetryNext]_vars
SpecAssigner == AssignerInit /\ [][AsgNext]_vars
AssignerAnyInit == QueueInit /\ AsgAnyInit /\ ProcIdle /\ HealthIdle /\ SessIdle /\ ScorerIdle /\ BatchIdle /\ JustifierIdle
SpecAssignerChecks == AssignerAnyInit /\ [][AsgCheckedNext]_vars
SpecProcessor == Init /\ [][ProcessorNext]_vars
SpecHealth == HealthInit /\ [][HealthCheckerNext]_vars
SpecSessions == SessionsInit /\ [][SessionsNext]_vars
SpecScorerValidation == ScorerStartInit /\ [][ValidationNext]_vars
BatchCallInit ==
  QueueInit /\ AsgIdle /\ ProcIdle /\ HealthIdle /\ SessIdle /\ ScorerIdle /\ BatchInit
    /\ JustifierIdle
BatchCallNext ==
  BatchNext /\ UNCHANGED <<queueVars, asgVars, procVars, healthVars, sessVars, scorerVars, justVars>>
SpecBatch == BatchCallInit /\ [][BatchCallNext]_vars
JustifierCallInit ==
  /\ QueueInit /\ AsgIdle /\ ProcIdle /\ HealthIdle /\ SessIdle /\ ScorerIdle
  /\ BatchIdle /\ JustifierInit
JustifierCallNext ==
  JustNext /\ UNCHANGED <<queueVars, asgVars, procVars, healthVars, sessVars, scorerVars, batchVars>>
SpecJustifier == JustifierCallInit /\ [][JustifierCallNext]_vars
TeamAssignmentStartInit ==
  /\ QueueInit /\ AsgIdle /\ ProcIdle /\ HealthIdle /\ SessIdle /\ ScorerIdle
  /\ BatchIdle /\ JustifierCallIdle /\ TeamAssignmentInit /\ RunnerIdle
TeamAssignmentOpsNext ==
  TeamAssignmentNext /\ UNCHANGED <<queueVars, asgVars, procVars, healthVars, sessVars, scorerVars, batchVars>>
SpecTeamAssignment == TeamAssignmentStartInit /\ [][TeamAssignmentOpsNext]_vars
RunnerCallInit ==
  /\ QueueInit /\ AsgIdle /\ ProcIdle /\ HealthIdle /\ SessIdle /\ ScorerIdle
  /\ BatchIdle /\ RunnerInit
RunnerCallNext ==
  RunnerStep /\ UNCHANGED <<queueVars, asgVars, procVars, healthVars, sessVars, scorerVars, batchVars>>
SpecJustifierRetry == RunnerCallInit /\ [][RunnerCallNext]_vars
PipelineHealthNext ==
  PipelineNext /\ UNCHANGED <<asgVars, sessVars, scorerVars, batchVars, justVars>>
SpecPipeline == Init /\ [][PipelineHealthNext]_vars
QueueSlotsNext ==
  SlotsNext /\ UNCHANGED <<asgVars, healthVars, sessVars, scorerVars, batchVars, justVars>>
SpecSlots == Init /\ [][QueueSlotsNext]_vars
AssignerStatsInit == QueueInit /\ StatsInit /\ ProcIdle /\ HealthIdle /\ SessIdle /\ ScorerIdle /\ BatchIdle /\ JustifierIdle
SpecStats == AssignerStatsInit /\ [][StatsNext]_vars
ManualInit == QueueInit /\ AsgIdle /\ ManualStoreInit /\ SessIdle /\ ScorerIdle /\ BatchIdle /\ JustifierIdle
ManualNext == ManualRecovery /\ UNCHANGED <<asgVars, sessVars, scorerVars, batchVars, justVars>>
SpecManual == ManualInit /\ [][ManualNext]_vars
LoadInit == QueueInit /\ AsgIdle /\ LoadIdle /\ HealthIdle /\ SessIdle /\ ScorerIdle /\ BatchIdle /\ JustifierIdle
BurstNext ==
  LoadNext /\ UNCHANGED <<asgVars, healthVars, sessVars, scorerVars, batchVars, justVars>>
SpecLoad == LoadInit /\ [][BurstNext]_vars
SpecScorerRetry == ScorerStartInit /\ [][ScorerCallNext]_vars
\* every run the queue started settles and every retry timer fires
AdminNext == QueueAdminNext /\ UNCHANGED <<asgVars, procVars, healthVars, sessVars, scorerVars, batchVars, justVars>>
SpecQueueAdmin == Init /\ [][AdminNext]_vars
FairNext == QueueFairNext /\ UNCHANGED <<asgVars, procVars, healthVars, sessVars, scorerVars, batchVars, justVars>>
RunSettlesNext == FairNext /\ lastOp' \in {"runSucceeded", "runFailed"}
TimerFiresNext == FairNext /\ lastOp' = "retryTimer"
SpecQueueFair ==
  /\ Init /\ [][FairNext]_vars
  /\ WF_vars(RunSettlesNext) /\ WF_vars(TimerFiresNext)
\* the interval timer keeps firing and time passes: a sweep or a tick that can
\* change something eventually happens
SpecHealthFair ==
  /\ LostRunInit /\ [][HealthSweepNext]_vars
  /\ WF_vars(HealthSweepNext)

(***************************************************************************)
(* Claims about the AssignmentQueue.                                       *)
(***************************************************************************)
LiveItems == NumItems(inFlight) + Len(waitingQueue) + NumItems(retryTimers)
Retried(item) == [item EXCEPT !.retryCount = @ + 1]
Started(item) == [item EXCEPT !.runs = @ + 1]

\* C1: in every reachable state at most MAX_CONCURRENT pipeline runs started
\* by the queue (triggerAutoAssignment invoked and not yet settled) are in flight.
C1_AtMostMaxConcurrentRuns == NumItems(inFlight) <= MAX_CONCURRENT

\* the runs of team t that the queue started and that have not settled
RunsInFlight(t) ==
  SumCounts(inFlight, {item \in ItemsIn(inFlight) : item.teamId = t})

\* C32: no team has two queue-started runs in flight at the same time, and
\* the waiting list never holds a team that is also in the processing set or
\* twice in the list.
C32_OneRunPerTeam ==
  /\ \A t \in Teams : RunsInFlight(t) <= 1
  /\ \A i \in 1..Len(waitingQueue) :
       /\ waitingQueue[i].teamId \notin processingPool
       /\ \A j \in 1..Len(waitingQueue) :
            i # j => waitingQueue[i].teamId # waitingQueue[j].teamId

\* C2: an addTeam(t) call made while t is in the processing set or in the
\* waiting list changes neither of them and starts no pipeline run.
C2_IdempotentEnqueue ==
  [][\A t \in Teams :
       ((t \in processingPool \/ t \in WaitingTeams(waitingQueue)) /\ AddTeam(t))
         => /\ UNCHANGED <<processingPool, waitingQueue, inFlight, retryTimers>>
            /\ UNCHANGED <<totalProcessed, totalFailed>>]_vars

\* C2 witness: an addTeam call returned early while a team was waiting.
C2_Witness == lastOp = "addTeamNoop" /\ Len(waitingQueue) > 0

C7_QueueOrdering ==
  [][/\ \* an arriving team is appended behind the teams already waiting
        (lastOp' = "addTeam" /\ Len(waitingQueue) > 0)
           => /\ inFlight' = inFlight
              /\ Len(waitingQueue') = Len(waitingQueue) + 1
              /\ SubSeq(waitingQueue', 1, Len(waitingQueue)) = waitingQueue
     /\ \* a completion starts nothing but the head of the waiting list
        (lastOp' \in {"runSucceeded", "runFailed"})
           => \/ waitingQueue' = waitingQueue
              \/ /\ Len(waitingQueue) > 0
                 /\ waitingQueue' = Tail(waitingQueue)
                 /\ Started(Head(waitingQueue)) \in ItemsIn(inFlight')
     /\ \* a retried item goes to the head, and is the one started if any is
        (lastOp' = "retryTimer")
           => \E item \in ItemsIn(retryTimers) :
                \/ waitingQueue' = <<item>> \o waitingQueue
                \/ /\ waitingQueue' = waitingQueue
                   /\ Started(item) \in ItemsIn(inFlight')]_vars

\* C8: addTeam for a team that is neither processing nor waiting starts its
\* run immediately if fewer than MAX_CONCURRENT teams are in the processing
\* set and otherwise appends it to the tail of the waiting list; each run
\* completion removes that team from the processing set and, when the
\* waiting list is non-empty, starts exactly one waiting team (the head).
C8_AdmissionAndHandOver ==
  [][/\ (lastOp' = "addTeam")
           => IF Cardinality(processingPool) < MAX_CONCURRENT
              THEN /\ NumItems(inFlight') = NumItems(inFlight) + 1
                   /\ waitingQueue' = waitingQueue
              ELSE /\ inFlight' = inFlight
                   /\ Len(waitingQueue') = Len(waitingQueue) + 1
                   /\ SubSeq(waitingQueue', 1, Len(waitingQueue)) = waitingQueue
     /\ (lastOp' \in {"runSucceeded", "runFailed"})
           => /\ NumItems(inFlight') <= NumItems(inFlight)
              /\ Len(waitingQueue) > 0
                   => /\ waitingQueue' = Tail(waitingQueue)
                      /\ NumItems(inFlight') = NumItems(inFlight)
                      /\ Started(Head(waitingQueue)) \in ItemsIn(inFlight')]_vars

(***************************************************************************)
(* Claims about AssignmentProcessor.                                       *)
(***************************************************************************)
\* C3: every run that sets a session to justifying is followed by that
\* session's status being complete, whatever the outcome of justification
\* generation (success, failure result, thrown error, timeout): once the
\* background task of the run has ended, which the 2-minute timeout forces,
\* the session is complete and not left in justifying.
C3_BackgroundTaskEndsComplete ==
  \A t \in ProcTeams :
    pipeline[t].bg = "done" => pipeline[t].status = "complete"

\* C35: after justification generation has succeeded, the background task
\* sets the session to complete whatever its follow-up store calls do: when
\* the re-fetch of the session returns nothing, and when the save of the
\* justified assignment fails.
C35_CompleteDespiteStoreFailures ==
  [][\A t \in ProcTeams :
       (pipeline[t].bg = "refetching" /\ pipeline'[t].bg = "done")
         => pipeline'[t].status = "complete"]_vars

\* the run of team t returns because a stage failed or threw
StageFails(t) ==
  \/ ScoringSettles(t, "failed")
  \/ ScoringSettles(t, "threw")
  \/ MatchingSettles(t, FALSE)
  \/ SaveSettles(t, FALSE)

C11_TeamCheckLeavesStore ==
  [][\A t \in ProcTeams : \A team \in {"missing", "incomplete"} :
       TeamCheckFails(t, team)
         => /\ pipeline'[t].result = "failure"
            /\ pipeline'[t].status = pipeline[t].status
            /\ pipeline'[t].assignment = pipeline[t].assignment
            /\ pipeline'[t].writes = <<>>
            /\ \A u \in ProcTeams \ {t} : pipeline'[u] = pipeline[u]]_vars

\* C11 witness: a run found its team missing and returned a failure; the team
\* still has no assignment session.
C11_Witness ==
  \E t \in ProcTeams :
    /\ lastOp = "runFailed"
    /\ pipeline[t].fault = "teamMissing"
    /\ pipeline[t].result = "failure"
    /\ pipeline[t].status = "none"

\* C10: the status values one run writes are, in order, scoring, assigning,
\* justifying and then (by its background task) complete, with no stage skipped
\* or written early; pending is written only as the last write of a run, right
\* after the stage that failed.
C10_StatusWriteOrder ==
  \A t \in ProcTeams :
    LET w == pipeline[t].writes
        f == pipeline[t].fault
    IN /\ w \in {<<>>, <<"scoring">>, <<"scoring", "assigning">>,
                 <<"scoring", "assigning", "justifying">>,
                 <<"scoring", "assigning", "justifying", "complete">>,
                 <<"scoring", "pending">>,
                 <<"scoring", "assigning", "pending">>}
       /\ w = <<"scoring", "pending">> => f \in {"scoringFailed", "scoringThrew"}
       /\ w = <<"scoring", "assigning", "pending">>
            => f \in {"matchingFailed", "saveFailed"}

\* C10 witness: one team's run went through every stage and its background
\* task wrote complete, while another team's run was rolled back after
\* assigning.
C10_Witness ==
  \E t, u \in ProcTeams :
    /\ pipeline[t].writes = <<"scoring", "assigning", "justifying", "complete">>
    /\ pipeline[u].writes = <<"scoring", "assigning", "pending">>

\* C17: Assigner.assignRoles is invoked (the run is at "assigning") only
\* after Scorer.generateScoreMatrix returned a success in that run, straight
\* from the scoring stage; when scoring fails the run ends with a failure
\* result without having reached the Assigner.
C17_MatchingAfterValidatedScoring ==
  [][\A t \in ProcTeams :
       /\ pipeline'[t].pc = "assigning"
            => /\ pipeline'[t].scored = "ok"
               /\ pipeline[t].pc \in {"scoring", "assigning"}
       /\ (pipeline[t].pc = "scoring" /\ pipeline'[t].scored \in {"failed", "threw"})
            => /\ pipeline'[t].pc = "idle"
               /\ pipeline'[t].result = "failure"
               /\ pipeline'[t].writes = <<"scoring", "pending">>]_vars

\* C17 witness: one team's run is at the Assigner after a successful scoring
\* while another team's run ended at a scoring failure.
C17_Witness ==
  \E t, u \in ProcTeams :
    /\ pipeline[t].pc = "assigning" /\ pipeline[t].scored = "ok"
    /\ pipeline[u].scored = "failed" /\ pipeline[u].result = "failure"
    /\ pipeline[u].pc = "idle"

C28_MatrixPersistedBeforeAssigning ==
  \A t \in ProcTeams :
    pipeline[t].status = "assigning" => pipeline[t].scoreMatrix = "saved"

\* the pipeline run of team t is executing (the team is in the processing
\* set), or its background justification has not reached its timeout
LiveRun(t) == t \in processingPool \/ pipeline[t].bg = "generating"

\* C31: a sweep of the Health Checker never resets to pending, re-enqueues or
\* forces to complete a session whose run is executing or whose background
\* justification is still within its timeout.
C31_SweepSparesLiveRuns ==
  [][\A t \in PipelineTeams :
       (LiveRun(t) /\ \E queryOk \in BOOLEAN : checkStuckTeams(queryOk))
         => /\ pipeline'[t].status = pipeline[t].status
            /\ health'.action[t] = ""
            /\ health'.addCalls[t] = 0]_vars

\* C33: complete is absorbing: once a session's status is complete, no
\* operation of the Queue, the Processor or the Health Checker changes its
\* status or overwrites its assignment.
C33_CompleteIsAbsorbing ==
  [][\A t \in PipelineTeams :
       pipeline[t].status = "complete"
         => /\ pipeline'[t].status = "complete"
            /\ pipeline'[t].assignment = pipeline[t].assignment]_vars

\* C37: forceRetryTeam(t) leaves t exactly once in the queue, in the
\* processing set or in the waiting list, with retryCount 0 (it returns true:
\* addTeam catches its own errors).  A run of t that was in flight keeps no
\* hold on the queue: no more than MAX_CONCURRENT runs are in flight, the
\* settlement of one of two runs of t leaves the other's entry in the
\* processing set, and no retry timer is scheduled for a team that has a run
\* in flight.
TimesQueued(t) ==
  (IF t \in processingPool THEN 1 ELSE 0)
    + Cardinality({i \in 1..Len(waitingQueue) : waitingQueue[i].teamId = t})

FreshlyQueued(t) ==
  \/ \E i \in 1..Len(waitingQueue) : waitingQueue[i] = QueueItem(t)
  \/ /\ t \in processingPool
     /\ \E item \in ItemsIn(inFlight) : item.teamId = t /\ item.retryCount = 0

C37_ForceRetry ==
  [][\A t \in Teams :
       /\ ForceRetryTeam(t) => TimesQueued(t)' = 1 /\ FreshlyQueued(t)'
       /\ NumItems(inFlight') <= MAX_CONCURRENT
       /\ (t \in processingPool /\ RunsInFlight(t) = 2 /\ RunsInFlight(t)' = 1)
            => t \in processingPool'
       /\ \A item \in ItemsIn(retryTimers') :
            (item.teamId = t /\ CountOf(retryTimers', item) > CountOf(retryTimers, item))
              => RunsInFlight(t)' = 0]_vars

\* C38: after clearQueue the processing set and the waiting list are empty
\* and the four counters are zero, and they stay so until the next addTeam:
\* a retry timer scheduled before the clear re-inserts and starts no team,
\* and the settlement of a run started before the clear changes no counter
\* and starts no team.
QueueCleared ==
  /\ processingPool = {} /\ waitingQueue = <<>>
  /\ totalProcessed = 0 /\ totalFailed = 0

C38_ClearQueue ==
  [][/\ ClearQueue => QueueCleared'
     /\ (lastOp = "clearQueue"
           /\ lastOp' \in {"runSucceeded", "runFailed", "retryTimer"})
          => QueueCleared' /\ inFlight' \subseteq inFlight]_vars

\* C40: getAssignmentStats places every score of [0,100], integer or real,
\* in exactly one of the six bands, so the six counts sum to the number of
\* assignment entries.
C40_ScoreBands ==
  asgResult # NoResult =>
    LET scores == asgInput.scores
        dist == asgResult.scoreDistribution
    IN /\ \A k \in 1..Len(scores) :
            Cardinality({i \in 1..Len(ranges) : inRange(scores[k], ranges[i])}) = 1
       /\ SumSeq([i \in 1..Len(dist) |-> dist[i].count]) = Len(scores)

AiCallInFlight(t) ==
  pipeline[t].pc = "scoring" \/ pipeline[t].bg = "generating"

C34_BoundedAiLoad ==
  Cardinality({t \in DOMAIN pipeline : AiCallInFlight(t)}) <= MAX_CONCURRENT

\* C29: in every state reachable through the Queue, the Processor and the
\* Health Checker, a session whose status is justifying or complete has a
\* persisted, non-empty assignment: justifying is written only after
\* saveAssignmentData succeeded, and the Health Checker forces complete only
\* when an assignment is present.
C29_AssignmentBehindJustifying ==
  \A t \in ProcTeams :
    pipeline[t].status \in {"justifying", "complete"}
      => pipeline[t].assignment \in {"saved", "justified"}

\* C29 witness: the Health Checker forced a session to complete while its
\* background task was still generating, and the assignment is there.
C29_Witness ==
  \E t \in ProcTeams :
    /\ pipeline[t].status = "complete" /\ pipeline[t].bg = "generating"
    /\ health.action[t] = "completed_without_justifications"
    /\ pipeline[t].assignment = "saved"

\* C30: the step that writes justifying is the step in which the run returns
\* success with justificationsPending = true (the background generation has
\* only been started), the queue takes the team out of its processing pool,
\* and the team at the head of the waiting list, if any, is started.
WritesJustifying(t) ==
  /\ pipeline[t].pc = "saving"
  /\ pipeline'[t].status = "justifying"
C30_SlotFreedAtJustifying ==
  [][\A t \in PipelineTeams :
       WritesJustifying(t) =>
         /\ pipeline'[t].result = "success"
         /\ pipeline'[t].bg = "generating"
         /\ totalProcessed' = totalProcessed + 1
         /\ IF waitingQueue = <<>>
            THEN processingPool' = processingPool \ {t}
            ELSE /\ processingPool'
                      = (processingPool \ {t}) \cup {Head(waitingQueue).teamId}
                 /\ waitingQueue' = Tail(waitingQueue)]_vars

(***************************************************************************)
(* Claims about AssignmentHealthChecker.                                   *)
(***************************************************************************)
\* team t is admitted to the queue: processing or waiting
Admitted(t) == t \in processingPool \/ t \in WaitingTeams(waitingQueue)

\* recoverStuckTeam is called for the session of team t in this step
RecoveryCalled(t) ==
  \/ manualRecovery({t}, {t}) /\ pipeline[t].status \notin {"none", "complete"}
  \/ /\ checkStuckTeams(TRUE)
     /\ pipeline[t].status \in {"scoring", "assigning", "justifying"}
     /\ sessionAge[t] > STUCK_THRESHOLD

ManualSkips(t, row, read) ==
  /\ health'.action[t] # ""
  /\ (~read \/ row.status = "none") =>
       health'.action[t] = "no_session_found" /\ pipeline'[t] = row
  /\ (read /\ row.status = "complete") =>
       /\ health'.action[t] = "already_complete"
       /\ pipeline'[t] = row
       /\ health'.addCalls[t] = 0

C13_SweepSelection ==
  [][checkStuckTeams(TRUE) =>
       \A t \in ProcTeams :
         IF /\ pipeline[t].status \in {"scoring", "assigning", "justifying"}
            /\ sessionAge[t] > STUCK_THRESHOLD
         THEN /\ health'.action[t] \in {"completed_without_justifications",
                                        "reset_and_requeued"}
              /\ pipeline'[t].status \in {"complete", "pending"}
              /\ health'.addCalls[t] =
                   IF pipeline'[t].status = "pending" THEN 1 ELSE 0
         ELSE /\ pipeline'[t] = pipeline[t]
              /\ health'.action[t] = ""
              /\ health'.addCalls[t] = 0
              /\ Admitted(t)' = Admitted(t)]_vars

\* C13 witness: a sweep reset one session and enqueued its team once, and left
\* alone a session in a processing status that is exactly STUCK_THRESHOLD old.
C13_Witness ==
  \E t, u \in ProcTeams :
    /\ health.op = "sweep"
    /\ health.action[t] = "reset_and_requeued" /\ health.addCalls[t] = 1
    /\ health.action[u] = ""
    /\ pipeline[u].status \in ProcessingStatuses
    /\ sessionAge[u] = STUCK_THRESHOLD

\* C14: under fair periodic sweeps every session left in scoring, assigning or
\* justifying by a lost run eventually leaves that status: it becomes complete,
\* or pending with its team admitted to the queue.
C14_EventualForwardProgress ==
  \A t \in ProcTeams :
    (pipeline[t].status \in {"scoring", "assigning", "justifying"})
      ~> \/ pipeline[t].status = "complete"
         \/ pipeline[t].status = "pending" /\ Admitted(t)

\* C14 witness: a sweep has completed a session that is past the threshold and
\* no session is left in a processing status.
C14_Witness ==
  /\ health.op = "sweep"
  /\ \E t \in ProcTeams :
       /\ health.action[t] = "completed_without_justifications"
       /\ sessionAge[t] = STUCK_THRESHOLD + 1
  /\ \A u \in ProcTeams : pipeline[u].status \notin ProcessingStatuses

ResponseIsValidMatrix ==
  /\ scorer.response.isArray
  /\ Len(scorer.response.items) = scorer.teamSize
  /\ \A i \in 1..Len(scorer.response.items) :
       LET row == scorer.response.items[i]
       IN /\ row.isArray
          /\ Len(row.items) = scorer.rolesCount
          /\ \A j \in 1..Len(row.items) :
               /\ row.items[j].type = "number"
               /\ row.items[j].value >= 0
               /\ row.items[j].value <= 100

\* C16: generateScoreMatrix returns success only with a matrix of exactly
\* team-size rows, each of exactly role-count cells, every cell a number in
\* [0,100]; a parsed response that violates one of these gives a failure
\* result (with no further attempt), and the matrix returned is the parsed
\* response itself, no cell clamped, coerced, padded or dropped.
C16_ScorerValidation ==
  /\ scorer.pc \in {"idle", "calling", "done"}
  /\ scorer.pc = "done"
       => /\ scorer.success <=> ResponseIsValidMatrix
          /\ scorer.success => scorer.scores = scorer.response
          /\ ~scorer.success => scorer.scores = NoScores /\ scorer.calls = 1

\* C16 witness: a response of the right shape with one cell of 101 was
\* answered by a failure.
C16_Witness ==
  /\ scorer.pc = "done" /\ ~scorer.success
  /\ scorer.response.isArray
  /\ Len(scorer.response.items) = scorer.teamSize
  /\ \A i \in 1..Len(scorer.response.items) :
       /\ scorer.response.items[i].isArray
       /\ Len(scorer.response.items[i].items) = scorer.rolesCount
  /\ \E i \in 1..Len(scorer.response.items) :
       \E j \in 1..Len(scorer.response.items[i].items) :
         scorer.response.items[i].items[j] = [type |-> "number", value |-> 101]

\* the errors the claim calls transient: network, timeout, 429, 5xx
Transient(error) ==
  \/ error.kind = "network"
  \/ error.kind = "http" /\ (error.status = 429 \/ error.status \in 500..599)

\* C18: an attempt is repeated only when its error is transient (network,
\* timeout, rate limit / 429, 5xx) and at most SCORER_MAX_RETRIES times, so that
\* at most 4 requests are sent per call; an attempt that fails with a
\* non-transient error ends the call with a failure and no further attempt.
C18_TransientRetryOnly ==
  [][(scorer.pc = "calling" /\ scorer'.pc # "calling")
       => /\ scorer'.calls <= SCORER_MAX_RETRIES + 1
          /\ scorer'.pc = "delaying"
               => /\ Transient(scorer'.error)
                  /\ scorer.retryCount < SCORER_MAX_RETRIES
          /\ (scorer'.error # NoError /\ ~Transient(scorer'.error))
               => scorer'.pc = "done" /\ ~scorer'.success]_vars

(***************************************************************************)
(* Claims about the batch methods.                                         *)
(***************************************************************************)
\* C27: at no time, in the first pass or in the retry pass over the failed
\* teams, are more than maxConcurrency per-team operations in flight.
C27_ConcurrencyCap ==
  batch.running <= batch.maxConcurrency

\* the indices of the returned results that name team t
ResultsOf(t) ==
  {k \in 1..Len(batch.result.results) : batch.result.results[k].teamId = t}
SucceededResults ==
  {k \in 1..Len(batch.result.results) : batch.result.results[k].success}

Identifies(e, m) ==
  \/ justifier.response[e].key = ApplicantIds[m]
  \/ justifier.response[e].key = justifier.names[m]

\* the ways to read the response as one entry per team member
Matchings ==
  {f \in [1..Len(justifier.response) -> 1..justifier.n] :
     /\ \A d, e \in 1..Len(justifier.response) : f[d] = f[e] => d = e
     /\ \A e \in 1..Len(justifier.response) : Identifies(e, f[e])}

OneEntryPerMember ==
  /\ Len(justifier.response) = justifier.n
  /\ Matchings # {}

\* the call succeeded and every member's assignment entry carries the text of
\* the response entry written for that member
EveryMemberJustified ==
  /\ justifier.success
  /\ \E f \in Matchings :
       \A e \in 1..Len(justifier.response) :
         justifier.justifications[f[e]] = trim(justifier.response[e].text)

DistinctNames ==
  \A l, m \in 1..justifier.n : justifier.names[l] = justifier.names[m] => l = m

UsableTexts ==
  \A e \in 1..Len(justifier.response) :
    justifier.response[e].text.form \in {"plain", "padded"}

\* C20 as stated: a response with one entry per team member, each identified
\* by the applicant's id or name, makes generateJustifications succeed and
\* attach to every assignment entry the justification written for that
\* applicant.
C20_NameFallbackAsStated ==
  (justifier.pc = "done" /\ OneEntryPerMember) => EveryMemberJustified

\* C20 amended: the same, for a team whose members' names are pairwise
\* distinct and a response whose justifications are strings of at most 500
\* characters that are not blank.
C20_NameFallback ==
  (justifier.pc = "done" /\ OneEntryPerMember /\ DistinctNames /\ UsableTexts)
    => EveryMemberJustified

\* C20 witness: a response that names one member by name and another by id,
\* in another order than the assignment's, was attached.
C20_Witness ==
  /\ justifier.pc = "done" /\ justifier.success
  /\ OneEntryPerMember /\ DistinctNames /\ UsableTexts
  /\ \E d, e \in 1..Len(justifier.response) :
       /\ justifier.response[d].key \in Names
       /\ justifier.response[e].key = ApplicantIds[1]
       /\ e > 1
  /\ justifier.justifications[1].of > 1

\* C21: generateJustifications returns a failure, with no updated
\* assignment (hence no truncated text and no entry justified in part),
\* whenever the number of entries of the response differs from the number of
\* assignment entries, an entry lacks its id or its text, a text is longer
\* than 500 characters, or a member is identified by no entry.
HardFailureCase ==
  \/ Len(justifier.response) # justifier.n
  \/ \E e \in 1..Len(justifier.response) :
       \/ justifier.response[e].key = MissingKey
       \/ justifier.response[e].text.form \in {"empty", "tooLong"}
  \/ \E m \in 1..justifier.n :
       \A e \in 1..Len(justifier.response) : ~Identifies(e, m)

C21_JustifierHardFailures ==
  (justifier.pc = "done" /\ HardFailureCase)
    => /\ ~justifier.success
       /\ justifier.error # "none"
       /\ justifier.justifications = NoJustifications

\* C21 witness: a response with the right number of entries, every member
\* identified, and one text longer than 500 characters was refused.
C21_Witness ==
  /\ justifier.pc = "done" /\ ~justifier.success
  /\ justifier.n > 1
  /\ OneEntryPerMember
  /\ \E e \in 1..Len(justifier.response) :
       justifier.response[e].text.form = "tooLong"
  /\ justifier.error = "tooLong"

\* every entry carries a non-empty justification string of at most 500
\* characters
EveryEntryJustified ==
  \A m \in 1..teamAssignment.n :
    teamAssignment.justifications[m] \in {"plain", "padded", "blank"}

\* C22: in every TeamAssignment produced by assignRoles, generateJustifications
\* or updateAssignmentJustification, justificationsGenerated is true if and
\* only if every entry carries a non-empty justification string of at most
\* 500 characters.
C22_JustificationsGeneratedFlag ==
  teamAssignment.last.op # "none"
    => (teamAssignment.justificationsGenerated <=> EveryEntryJustified)

\* C23: generateJustificationsWithRetry calls the team justification
\* generation again after a failure classified as retryable (network,
\* timeout, rate limit, 5xx), up to JUSTIFIER_MAX_RETRIES times, and not after
\* any other failure: a call that returned a failure made
\* JUSTIFIER_MAX_RETRIES + 1 calls when the failure is retryable, and one
\* call per retryable failure otherwise.
C23_JustifierRetry ==
  /\ runner.calls <= JUSTIFIER_MAX_RETRIES + 1
  /\ (runner.pc = "done" /\ ~runner.success)
       => IF Transient(runner.failure)
          THEN runner.calls = JUSTIFIER_MAX_RETRIES + 1
          ELSE runner.calls = runner.retryCount + 1

(***************************************************************************)
(* Claims about Assigner.assignRoles.                                      *)
(***************************************************************************)
AssignedApplicants == {asgResult.assignments[k].applicantId :
                         k \in 1..Len(asgResult.assignments)}
AssignedRoles == {asgResult.assignments[k].roleId :
                    k \in 1..Len(asgResult.assignments)}

\* C4: for every complete team, role list with at least as many roles as
\* members and teamSize x rolesCount matrix, assignRoles succeeds and returns
\* exactly teamSize pairs in which every member appears exactly once and no
\* role appears twice; surplus roles stay unassigned.
C4_AssignmentBijection ==
  asgResult.called =>
    /\ asgResult.success
    /\ Len(asgResult.assignments) = asgInput.teamSize
    /\ AssignedApplicants = 1..asgInput.teamSize
    /\ AssignedRoles \subseteq 1..asgInput.rolesCount
    /\ Cardinality(AssignedRoles) = asgInput.teamSize

\* C4 witness: a successful call with more roles than team members.
C4_Witness ==
  /\ asgResult.called /\ asgResult.success
  /\ asgInput.teamSize >= 2
  /\ asgInput.rolesCount > asgInput.teamSize
  /\ Cardinality(AssignedRoles) < asgInput.rolesCount

\* C5: the totalScore returned by assignRoles is at least the score sum of
\* every one-to-one assignment of all team members to distinct roles.
C5_Optimality ==
  (asgResult.called /\ asgResult.success) =>
    \A f \in Injections(asgInput.teamSize, asgInput.rolesCount) :
      asgResult.totalScore
        >= SumSeq([i \in 1..asgInput.teamSize |-> asgInput.scores[i][f[i]]])

\* C5 witness: a successful call on a matrix for which some other one-to-one
\* assignment scores strictly less than the returned one.
C5_Witness ==
  /\ asgResult.called /\ asgResult.success
  /\ asgInput.teamSize >= 3
  /\ \E f \in Injections(asgInput.teamSize, asgInput.rolesCount) :
       asgResult.totalScore
         > SumSeq([i \in 1..asgInput.teamSize |-> asgInput.scores[i][f[i]]])

\* the matrix of concrete scenario 1: 90 where member i meets role i, 10 elsewhere
DiagonalMatrix ==
  /\ asgInput.teamSize = 2
  /\ \A i \in 1..2 : \A j \in 1..asgInput.rolesCount :
       asgInput.scores[i][j] = IF i = j THEN 90 ELSE 10

\* C25: in every successful assignRoles result each pair's score is the cell
\* of the score matrix at the pair's applicant and role, and totalScore is the
\* sum of the pairs' scores; for a 2-member team with 90 on the cells (0,0)
\* and (1,1) and 10 elsewhere the result is member 0 -> role 0 (90),
\* member 1 -> role 1 (90), totalScore 180.
C25_ScoresFromMatrix ==
  (asgResult.called /\ asgResult.success) =>
    /\ \A k \in 1..Len(asgResult.assignments) :
         asgResult.assignments[k].score
           = asgInput.scores[asgResult.assignments[k].applicantId]
                            [asgResult.assignments[k].roleId]
    /\ asgResult.totalScore
         = SumSeq([k \in 1..Len(asgResult.assignments) |->
                     asgInput.scores[asgResult.assignments[k].applicantId]
                                    [asgResult.assignments[k].roleId]])
    /\ DiagonalMatrix =>
         /\ asgResult.assignments
              = << [applicantId |-> 1, roleId |-> 1, score |-> 90],
                   [applicantId |-> 2, roleId |-> 2, score |-> 90] >>
         /\ asgResult.totalScore = 180

\* C25 witness: the call of concrete scenario 1 returned, with a surplus role.
C25_Witness ==
  /\ asgResult.called /\ asgResult.success
  /\ DiagonalMatrix
  /\ asgInput.rolesCount = 3
  /\ asgResult.totalScore = 180

\* what the matching routine returned to the call
MatchingOutOfRange ==
  \E k \in 1..Len(asgResult.hungarianResult) :
    \/ asgResult.hungarianResult[k][1] \notin 1..asgInput.teamSize
    \/ asgResult.hungarianResult[k][2] \notin 1..asgInput.rolesCount
MatchingCoversTeam ==
  /\ {asgResult.hungarianResult[k][1] : k \in 1..Len(asgResult.hungarianResult)}
       = 1..asgInput.teamSize
  /\ \A k, l \in 1..Len(asgResult.hungarianResult) :
       k # l => /\ asgResult.hungarianResult[k][1] # asgResult.hungarianResult[l][1]
                /\ asgResult.hungarianResult[k][2] # asgResult.hungarianResult[l][2]
MatrixShapeOk ==
  /\ Len(asgInput.scores) = asgInput.teamSize
  /\ \A i \in 1..Len(asgInput.scores) : Len(asgInput.scores[i]) = asgInput.rolesCount

\* C26: assignRoles returns failure with no assignment when the team is not
\* complete, when there are fewer roles than members, when the score matrix
\* is not teamSize x rolesCount, or when the matching result has an index out
\* of range or does not cover every applicant with distinct roles; a success
\* never carries fewer than teamSize pairs or a duplicated applicant or role.
C26_AssignerHardFailures ==
  asgResult.called =>
    /\ ( \/ ~asgInput.isComplete
         \/ asgInput.rolesCount < asgInput.teamSize
         \/ ~MatrixShapeOk
         \/ asgResult.munkresCalled /\ MatchingOutOfRange
         \/ asgResult.munkresCalled /\ ~MatchingCoversTeam )
         => ~asgResult.success /\ asgResult.assignments = <<>>
    /\ asgResult.success =>
         /\ Len(asgResult.assignments) = asgInput.teamSize
         /\ AssignedApplicants = 1..asgInput.teamSize
         /\ Cardinality(AssignedRoles) = asgInput.teamSize
         /\ AssignedRoles \subseteq 1..asgInput.rolesCount

\* C26 witness: the inputs passed, the matching had every index in range and
\* teamSize pairs but gave one role to two members, and the call failed.
C26_Witness ==
  /\ asgResult.called /\ asgResult.munkresCalled
  /\ ~MatchingOutOfRange
  /\ Len(asgResult.hungarianResult) = asgInput.teamSize
  /\ {asgResult.hungarianResult[k][1] : k \in 1..Len(asgResult.hungarianResult)}
       = 1..asgInput.teamSize
  /\ ~MatchingCoversTeam
  /\ ~asgResult.success

====
